---- MODULE Spec2Model ----
(***************************************************************************)
(* Model of the trace diagnosis engine of AI-Agent-X-Ray                   *)
(* (src/xray_api/agents/analyzer.py): XRayAnalyzer.analyze_run, the        *)
(* sliding-window scan, the per-window oracle call, the response parser,   *)
(* the result combiner and the payload normalizer; of the client's send,   *)
(* spool and flush_spool (src/xray_sdk/client.py); and of the ingest route *)
(* (src/xray_api/routes/ingest.py) on the runs table.                      *)
(*                                                                         *)
(* Specifications: Spec (the scan), SpecParse (the parser on any text),    *)
(* SpecFrame (the scan on the objects of the caller's trace), SpecNorm     *)
(* (_ensure_within_budget), SpecOnce (one pass of _summarize_once),        *)
(* SpecClient (send and flush_spool, one call after the other), SpecFlush  *)
(* (two flush_spool calls line by line on one spool directory) and         *)
(* SpecIngest (POST /api/ingest with analyze_run running inside it).       *)
(*                                                                         *)
(* Text is modelled as a sequence of tokens.  A token is either a piece of *)
(* markup (whitespace, a code fence, the word json), a piece of prose, or  *)
(* one complete JSON document.  Python values are tagged records.          *)
(***************************************************************************)
EXTENDS Integers, Sequences, FiniteSets, TLC

\* ------------------------------------------------------------------------
\* Bounds of the model
\* ------------------------------------------------------------------------
MaxSteps == 5

MaxTextLen == 4

\* Longest string, longest list, most fields of a record in a payload, and
\* number of times a payload is normalized.
MaxStrLen == 3000

MaxListLen == 500

MaxFields == 4

MaxRounds == 2

\* Number of client calls (send, flush_spool) in a run.
MaxClientCalls == 2

\* Number of requests the ingest route receives in a run.
MaxRequests == 2

\* Greatest number of steps of a request.
MaxRequestSteps == 3

\* ------------------------------------------------------------------------
\* Program constants
\* ------------------------------------------------------------------------
WINDOW_SIZE == 2

\* ------------------------------------------------------------------------
\* Python / JSON values
\* ------------------------------------------------------------------------
None == [t |-> "null", v |-> <<>>]

Str(text) == [t |-> "str", v |-> text]

Num(digits) == [t |-> "num", v |-> <<digits>>]

\* Python truthiness of a value: None, "", 0 and False are falsy.
Truthy(val) ==
    CASE val.t = "null" -> FALSE
      [] val.t = "str"  -> val.v # <<>>
      [] val.t = "num"  -> val.v # <<"0">>
      [] val.t = "bool" -> val.v = <<"true">>
      [] OTHER          -> TRUE

\* The keys a window result or a report can carry.
ResultKeys ==
    {"faulty_step", "faulty_step_order", "reason", "suggestion",
     "transition_status", "raw_response", "error"}

\* A Python object obtained for one window: a dict (type "dict", with the
\* keys in `keys`) or a non-dict value (list, None, number).
Dict(keys, f) ==
    [type |-> "dict", keys |-> keys,
     f |-> [k \in ResultKeys |-> IF k \in keys THEN f[k] ELSE None]]

NonDict(type) ==
    [type |-> type, keys |-> {}, f |-> [k \in ResultKeys |-> None]]

IsDict(obj) == obj.type = "dict"

\* dict.get(key) with the default None
Get(obj, key) == IF key \in obj.keys THEN obj.f[key] ELSE None

\* dict.get(key, default)
GetOr(obj, key, default) == IF key \in obj.keys THEN obj.f[key] ELSE default

\* ------------------------------------------------------------------------
\* Tokens of the oracle text
\* ------------------------------------------------------------------------
WS == "\n"

\* a code fence (three backquotes)
FENCE == "<fence>"

JSONWORD == "json"

PROSE == "The transition looks fine to me."

OBJ_OK == "{faulty_step: null, faulty_step_order: null, reason: ok, transition_status: ok}"

OBJ_FAULT == "{faulty_step: filter, faulty_step_order: 2, reason: mismatch, transition_status: error}"

OBJ_EMPTY == "{faulty_step: '', faulty_step_order: null, reason: none, transition_status: ok}"

JSON_LIST == "[]"

JSON_NULL == "null"

JSON_ZERO == "0"

JsonDocuments == {OBJ_OK, OBJ_FAULT, OBJ_EMPTY, JSON_LIST, JSON_NULL, JSON_ZERO}

\* What json.loads yields for each complete JSON document.
Decoded(doc) ==
    CASE doc = OBJ_OK ->
           Dict({"faulty_step", "faulty_step_order", "reason", "transition_status"},
                [k \in ResultKeys |->
                   CASE k = "reason" -> Str(<<"ok">>)
                     [] k = "transition_status" -> Str(<<"ok">>)
                     [] OTHER -> None])
      [] doc = OBJ_FAULT ->
           Dict({"faulty_step", "faulty_step_order", "reason", "transition_status"},
                [k \in ResultKeys |->
                   CASE k = "faulty_step" -> Str(<<"filter">>)
                     [] k = "faulty_step_order" -> Num("2")
                     [] k = "reason" -> Str(<<"mismatch">>)
                     [] k = "transition_status" -> Str(<<"error">>)
                     [] OTHER -> None])
      [] doc = OBJ_EMPTY ->
           Dict({"faulty_step", "faulty_step_order", "reason", "transition_status"},
                [k \in ResultKeys |->
                   CASE k = "faulty_step" -> Str(<<>>)
                     [] k = "reason" -> Str(<<"none">>)
                     [] k = "transition_status" -> Str(<<"ok">>)
                     [] OTHER -> None])
      [] doc = JSON_LIST -> NonDict("list")
      [] doc = JSON_NULL -> NonDict("null")
      [] doc = JSON_ZERO -> NonDict("number")

\* str.strip(): drop leading and trailing whitespace.
RECURSIVE LStrip(_)
LStrip(text) ==
    IF text # <<>> /\ Head(text) = WS THEN LStrip(Tail(text)) ELSE text

RECURSIVE RStrip(_)
RStrip(text) ==
    IF text # <<>> /\ text[Len(text)] = WS
    THEN RStrip(SubSeq(text, 1, Len(text) - 1))
    ELSE text

Strip(text) == RStrip(LStrip(text))

\* text.startswith(fence + "json"), text.startswith(fence), text.endswith(fence)
StartsWithFenceJson(text) ==
    Len(text) >= 2 /\ text[1] = FENCE /\ text[2] = JSONWORD

StartsWithFence(text) == text # <<>> /\ text[1] = FENCE

EndsWithFence(text) == text # <<>> /\ text[Len(text)] = FENCE

\* The text handed to json.loads (analyzer.py lines 305-313).
Unfenced(response_text) ==
    LET t0 == Strip(response_text)
        t1 == IF StartsWithFenceJson(t0) THEN SubSeq(t0, 3, Len(t0)) ELSE t0
        t2 == IF StartsWithFence(t1) THEN Tail(t1) ELSE t1
        t3 == IF EndsWithFence(t2) THEN SubSeq(t2, 1, Len(t2) - 1) ELSE t2
    IN  Strip(t3)

\* json.loads succeeds exactly on one complete JSON document.
JsonDecodable(text) == Len(text) = 1 /\ text[1] \in JsonDocuments

\* ------------------------------------------------------------------------
\* ResponseParser: XRayAnalyzer._parse_analysis_response
\* ------------------------------------------------------------------------
\* message.content of the oracle response: a text, or None (has = FALSE).
NoContent == [has |-> FALSE, text |-> <<>>]

Content(text) == [has |-> TRUE, text |-> text]

UNABLE_TO_PARSE == "Unable to parse structured response"

\* Variant: the raw text is stored after strip().
DegradedVerdictStripped(response_text) ==
    Dict({"faulty_step", "faulty_step_order", "reason", "suggestion", "raw_response"},
         [k \in ResultKeys |->
            CASE k = "reason" -> Str(Strip(response_text))
              [] k = "suggestion" -> Str(<<UNABLE_TO_PARSE>>)
              [] k = "raw_response" -> Str(Strip(response_text))
              [] OTHER -> None])

\* The verdict of the except branch (lines 315-321).
DegradedVerdict(response_text) ==
    Dict({"faulty_step", "faulty_step_order", "reason", "suggestion", "raw_response"},
         [k \in ResultKeys |->
            CASE k = "reason" -> Str(response_text)
              [] k = "suggestion" -> Str(<<UNABLE_TO_PARSE>>)
              [] k = "raw_response" -> Str(response_text)
              [] OTHER -> None])

ATTRIBUTE_ERROR == "'NoneType' object has no attribute 'strip'"

\* The outcome of the parser: a returned value, or an exception that leaves
\* the function.  None has no strip(), and AttributeError is not a
\* JSONDecodeError, so the except clause of the parser does not catch it.
ParseAnalysisResponse(content) ==
    IF ~content.has
    THEN [raised |-> TRUE, value |-> NonDict("null"), exc |-> <<ATTRIBUTE_ERROR>>]
    ELSE [raised |-> FALSE,
          value  |-> IF JsonDecodable(Unfenced(content.text))
                     THEN Decoded(Unfenced(content.text)[1])
                     ELSE DegradedVerdict(content.text),
          exc    |-> <<>>]

\* ------------------------------------------------------------------------
\* The oracle and XRayAnalyzer._analyze_window
\* ------------------------------------------------------------------------
ORACLE_ERROR == "Request timed out."

\* What one chat.completions.create call can do: raise, or answer with a
\* message whose content is a text or None.
OracleRaises == [kind |-> "exception", content |-> NoContent]

OracleAnswers(content) == [kind |-> "answer", content |-> content]

\* Variant: the except branch blames the window.
ErrorVerdictBlamed(message) ==
    Dict({"error", "faulty_step"},
         [k \in ResultKeys |-> IF k \in {"error", "faulty_step"} THEN Str(message) ELSE None])

\* The verdict of the except branch of _analyze_window (lines 181-182).
ErrorVerdict(message) ==
    Dict({"error", "faulty_step"},
         [k \in ResultKeys |-> IF k = "error" THEN Str(message) ELSE None])

\* Variant: the except branch returns None instead of an error verdict.
AnalyzeWindowNoVerdict(reply) ==
    IF reply.kind = "exception"
    THEN NonDict("null")
    ELSE LET parsed == ParseAnalysisResponse(reply.content)
         IN  IF parsed.raised THEN ErrorVerdict(parsed.exc) ELSE parsed.value

\* The value _analyze_window returns for one oracle reply (lines 162-182).
AnalyzeWindow(reply) ==
    IF reply.kind = "exception"
    THEN ErrorVerdict(<<ORACLE_ERROR>>)
    ELSE LET parsed == ParseAnalysisResponse(reply.content)
         IN  IF parsed.raised THEN ErrorVerdict(parsed.exc) ELSE parsed.value

\* ------------------------------------------------------------------------
\* Steps and their order
\* ------------------------------------------------------------------------
\* step_order of a step that has no "step_order" key
NoOrder == -1

StepOrders == {NoOrder, 2}

\* key=lambda s: s.get('step_order', 0)
StepKey(step) == IF step.step_order = NoOrder THEN 0 ELSE step.step_order

\* Variant: an unstable sort, equal keys end up in reverse array order.
InsertStepUnstable(step, sorted) ==
    LET k == Cardinality({j \in 1..Len(sorted) : StepKey(sorted[j]) < StepKey(step)})
    IN  SubSeq(sorted, 1, k) \o <<step>> \o SubSeq(sorted, k + 1, Len(sorted))

\* One step of sorted(): place `step` behind every element whose key is not
\* greater (the sort is stable).
InsertStep(step, sorted) ==
    LET k == Cardinality({j \in 1..Len(sorted) : StepKey(sorted[j]) <= StepKey(step)})
    IN  SubSeq(sorted, 1, k) \o <<step>> \o SubSeq(sorted, k + 1, Len(sorted))

RECURSIVE SortSteps(_)
SortSteps(steps) ==
    IF steps = <<>>
    THEN <<>>
    ELSE InsertStep(steps[Len(steps)], SortSteps(SubSeq(steps, 1, Len(steps) - 1)))

\* ------------------------------------------------------------------------
\* ResultCombiner: XRayAnalyzer._combine_window_results
\* ------------------------------------------------------------------------
NoReport ==
    [keys |-> {}, faulty_step |-> None, faulty_step_order |-> None,
     reason |-> None, suggestion |-> None, analysis_method |-> None,
     windows_analyzed |-> 0, all_steps_analysis |-> <<>>, error |-> None]

FaultKeys ==
    {"faulty_step", "faulty_step_order", "reason", "suggestion",
     "analysis_method", "windows_analyzed"}

CleanKeys == FaultKeys \cup {"all_steps_analysis"}

\* Variant: windows_analyzed holds the 0-based index of the last window.
FaultReportZeroBased(result, count) ==
    [NoReport EXCEPT
       !.keys = FaultKeys,
       !.faulty_step = result.f["faulty_step"],
       !.faulty_step_order = Get(result, "faulty_step_order"),
       !.reason = GetOr(result, "reason", Str(<<>>)),
       !.suggestion = GetOr(result, "suggestion", Str(<<>>)),
       !.analysis_method = Str(<<"sliding_window">>),
       !.windows_analyzed = count - 1]

FaultReport(result, count) ==
    [NoReport EXCEPT
       !.keys = FaultKeys,
       !.faulty_step = result.f["faulty_step"],
       !.faulty_step_order = Get(result, "faulty_step_order"),
       !.reason = GetOr(result, "reason", Str(<<>>)),
       !.suggestion = GetOr(result, "suggestion", Str(<<>>)),
       !.analysis_method = Str(<<"sliding_window">>),
       !.windows_analyzed = count]

CleanReport(all_steps, count) ==
    [NoReport EXCEPT
       !.keys = CleanKeys,
       !.reason = Str(<<"All step transitions appear correct">>),
       !.analysis_method = Str(<<"sliding_window">>),
       !.windows_analyzed = count,
       !.all_steps_analysis =
           [j \in 1..Len(all_steps) |->
              [step |-> all_steps[j].step_name, status |-> "ok",
               note |-> "Transition verified"]]]

\* The loop of lines 277-286 reads result.get on every result up to the first
\* faulty one; a result that is not a dict has no get and raises.
CombineWindowResults(window_results, all_steps) ==
    LET faulty   == {j \in 1..Len(window_results) :
                       IsDict(window_results[j])
                       /\ Truthy(Get(window_results[j], "faulty_step"))}
        nondict  == {j \in 1..Len(window_results) : ~IsDict(window_results[j])}
        first(S) == CHOOSE j \in S : \A k \in S : j <= k
    IN  IF nondict # {} /\ (faulty = {} \/ first(nondict) < first(faulty))
        THEN [raised |-> TRUE, report |-> NoReport]
        ELSE IF faulty # {}
        THEN [raised |-> FALSE,
              report |-> FaultReport(window_results[first(faulty)], Len(window_results))]
        ELSE [raised |-> FALSE,
              report |-> CleanReport(all_steps, Len(window_results))]

\* ------------------------------------------------------------------------
\* Payload values (inputs and outputs of a step)
\* ------------------------------------------------------------------------
\* A payload is a JSON tree.  A string is its number n of leading original
\* characters and the number m its truncation marker states (m = 0: no
\* marker).  A list holds elements of one shape (kids[1]); segs lists the
\* ranges <<lo, hi>> of original element positions it still holds, in order.
\* A dict is an insertion-ordered sequence of keys with their values (kids).
JNull == [t |-> "null", n |-> 0, m |-> 0, keys |-> <<>>, segs |-> <<>>, kids |-> <<>>]

JNum(k) == [JNull EXCEPT !.t = "num", !.n = k]

JStr(len) == [JNull EXCEPT !.t = "str", !.n = len]

JList(count, elem) ==
    [JNull EXCEPT !.t = "list",
                  !.segs = IF count = 0 THEN <<>> ELSE <<(<<1, count>>)>>,
                  !.kids = <<elem>>]

JDict(keys, vals) == [JNull EXCEPT !.t = "dict", !.keys = keys, !.kids = vals]

EmptyDict == JDict(<<>>, <<>>)

MAX_PAYLOAD_SIZE == 80000

SAMPLE_SIZE == 100

MIN_SAMPLE_SIZE == 10

STRING_TRUNCATE == 2000

\* len("...[truncated ") + len(" chars]")
MARKER_TEXT_LEN == 21

RECURSIVE Digits(_)
Digits(k) == IF k < 10 THEN 1 ELSE 1 + Digits(k \div 10)

\* len(data) of a string
StrLen(v) == v.n + (IF v.m > 0 THEN MARKER_TEXT_LEN + Digits(v.m) ELSE 0)

RECURSIVE SegsLen(_)
SegsLen(segs) ==
    IF segs = <<>> THEN 0 ELSE (segs[1][2] - segs[1][1] + 1) + SegsLen(Tail(segs))

\* len(items) of a list
ListLen(v) == SegsLen(v.segs)

\* len(json.dumps(data, default=str)): item separator ", ", key separator
\* ": ", strings of plain characters in quotes.
RECURSIVE JsonSize(_)
RECURSIVE JsonSizeSum(_, _)
JsonSizeSum(vals, j) ==
    IF j > Len(vals) THEN 0 ELSE JsonSize(vals[j]) + JsonSizeSum(vals, j + 1)

RECURSIVE KeysSize(_, _)
KeysSize(keys, j) ==
    IF j > Len(keys) THEN 0 ELSE (Len(keys[j]) + 4) + KeysSize(keys, j + 1)

JsonSize(v) ==
    CASE v.t = "null" -> 4
      [] v.t = "num"  -> Digits(v.n)
      [] v.t = "str"  -> StrLen(v) + 2
      [] v.t = "list" ->
           IF ListLen(v) = 0
           THEN 2
           ELSE 2 + ListLen(v) * JsonSize(v.kids[1]) + 2 * (ListLen(v) - 1)
      [] v.t = "dict" ->
           IF v.keys = <<>>
           THEN 2
           ELSE 2 + KeysSize(v.keys, 1) + JsonSizeSum(v.kids, 1) + 2 * (Len(v.keys) - 1)

\* ------------------------------------------------------------------------
\* PayloadNormalizer: _summarize_once, _summarize_list
\* ------------------------------------------------------------------------
\* items[:count] on the ranges of a list
RECURSIVE TakeHead(_, _)
TakeHead(segs, count) ==
    IF count <= 0 \/ segs = <<>>
    THEN <<>>
    ELSE LET size == segs[1][2] - segs[1][1] + 1
         IN  IF size <= count
             THEN <<segs[1]>> \o TakeHead(Tail(segs), count - size)
             ELSE <<(<<segs[1][1], segs[1][1] + count - 1>>)>>

\* items[-count:] on the ranges of a list, for count >= 1
RECURSIVE TakeTail(_, _)
TakeTail(segs, count) ==
    IF count <= 0 \/ segs = <<>>
    THEN <<>>
    ELSE LET last == segs[Len(segs)]
             size == last[2] - last[1] + 1
             rest == SubSeq(segs, 1, Len(segs) - 1)
         IN  IF size <= count
             THEN TakeTail(rest, count - size) \o <<last>>
             ELSE <<(<<last[2] - count + 1, last[2]>>)>>

\* summarized[key] = value: a present key keeps its place, a new key is
\* appended.
Put(dict, key, value) ==
    IF \E j \in 1..Len(dict.keys) : dict.keys[j] = key
    THEN LET j == CHOOSE j \in 1..Len(dict.keys) : dict.keys[j] = key
         IN  [dict EXCEPT !.kids[j] = value]
    ELSE [dict EXCEPT !.keys = Append(@, key), !.kids = Append(@, value)]

\* f"{key}_total_count"
TotalCountKey(key) == key \o "_total_count"

\* Variant: the marker states the length of the whole string.
TruncateStringWholeLength(v) ==
    [v EXCEPT !.n = IF v.n < STRING_TRUNCATE THEN v.n ELSE STRING_TRUNCATE,
              !.m = StrLen(v)]

\* data[:STRING_TRUNCATE] followed by the marker with the overflow.
TruncateString(v) ==
    [v EXCEPT !.n = IF v.n < STRING_TRUNCATE THEN v.n ELSE STRING_TRUNCATE,
              !.m = StrLen(v) - STRING_TRUNCATE]

\* head_count = sample_size // 2 (line 151)
HeadCount(sample_size) == sample_size \div 2

RECURSIVE SummarizeOnce(_, _)
RECURSIVE SummarizeList(_, _)
RECURSIVE SummarizeEntries(_, _, _, _)

\* _summarize_list (lines 147-154): the list and total_count; sampled = FALSE
\* stands for total_count = None.
SummarizeList(items, sample_size) ==
    LET sampled == ListLen(items) > sample_size
        head_count == HeadCount(sample_size)
        tail_count == sample_size - head_count
        segs == IF sampled
                THEN TakeHead(items.segs, head_count) \o TakeTail(items.segs, tail_count)
                ELSE items.segs
        kids == IF segs = <<>>
                THEN items.kids
                ELSE <<SummarizeOnce(items.kids[1], sample_size)>>
    IN  [list    |-> [items EXCEPT !.segs = segs, !.kids = kids],
         sampled |-> sampled,
         total   |-> IF sampled THEN ListLen(items) ELSE 0]

\* The loop over data.items() of lines 130-137, from entry j on.
SummarizeEntries(data, j, summarized, sample_size) ==
    IF j > Len(data.keys)
    THEN summarized
    ELSE LET key == data.keys[j]
             value == data.kids[j]
         IN  IF value.t = "list"
             THEN LET r == SummarizeList(value, sample_size)
                      with_list == Put(summarized, key, r.list)
                  IN  SummarizeEntries(data, j + 1,
                          IF r.sampled
                          THEN Put(with_list, TotalCountKey(key), JNum(r.total))
                          ELSE with_list,
                          sample_size)
             ELSE SummarizeEntries(data, j + 1,
                      Put(summarized, key, SummarizeOnce(value, sample_size)),
                      sample_size)

\* _summarize_once (lines 127-145)
SummarizeOnce(data, sample_size) ==
    CASE data.t = "dict" -> SummarizeEntries(data, 1, EmptyDict, sample_size)
      [] data.t = "list" -> SummarizeList(data, sample_size).list
      [] data.t = "str" /\ StrLen(data) > STRING_TRUNCATE -> TruncateString(data)
      [] OTHER -> data

\* sample_size = max(self.MIN_SAMPLE_SIZE, sample_size // 2) (line 125)
NextSampleSize(sample_size) ==
    IF sample_size \div 2 > MIN_SAMPLE_SIZE THEN sample_size \div 2 ELSE MIN_SAMPLE_SIZE

\* ------------------------------------------------------------------------
\* Inputs: traces and oracle replies
\* ------------------------------------------------------------------------
\* The steps of a trace: the j-th step of the array is named ToString(j) and
\* remembers its array position in `pos`.
TracesOf(maxLen, orders) ==
    UNION {{[j \in 1..n |-> [step_name |-> ToString(j), step_order |-> o[j], pos |-> j]] :
              o \in [1..n -> orders]} : n \in 0..maxLen}

\* run_data: a dict with or without the key "steps".
RunDataOf(traces) ==
    {[has_steps |-> FALSE, steps |-> <<>>]}
      \cup {[has_steps |-> TRUE, steps |-> s] : s \in traces}

\* The replies the oracle gives in the scan specification.
OracleReplies ==
    {OracleRaises,
     OracleAnswers(NoContent),
     OracleAnswers(Content(<<PROSE>>)),
     OracleAnswers(Content(<<WS, FENCE, JSONWORD, WS, OBJ_OK, WS, FENCE>>)),
     OracleAnswers(Content(<<OBJ_EMPTY>>)),
     OracleAnswers(Content(<<OBJ_FAULT>>)),
     OracleAnswers(Content(<<JSON_LIST>>)),
     OracleAnswers(Content(<<JSON_NULL>>)),
     OracleAnswers(Content(<<FENCE, JSON_ZERO, FENCE>>))}

\* Every text of at most MaxTextLen tokens.
TextTokens == {WS, FENCE, JSONWORD, PROSE, OBJ_OK, OBJ_FAULT, JSON_LIST}

AllTexts == UNION {[1..n -> TextTokens] : n \in 0..MaxTextLen}

AllReplies ==
    {OracleRaises, OracleAnswers(NoContent)}
      \cup {OracleAnswers(Content(t)) : t \in AllTexts}

\* ------------------------------------------------------------------------
\* Budget tests and the normalized value of a payload
\* ------------------------------------------------------------------------
\* Variant: twice the budget is accepted.
WithinBudgetDoubled(data) == JsonSize(data) <= 2 * MAX_PAYLOAD_SIZE

\* size <= self.MAX_PAYLOAD_SIZE (lines 108, 123)
WithinBudget(data) == JsonSize(data) <= MAX_PAYLOAD_SIZE

\* Variant: the floor pass is repeated until the result fits.
FloorReachedNever(sample_size) == FALSE

\* sample_size <= self.MIN_SAMPLE_SIZE (line 123)
FloorReached(sample_size) == sample_size <= MIN_SAMPLE_SIZE

\* Variant: None is returned as it is.
NullPayloadKept == JNull

\* if data is None: return {}  (lines 102-103)
NullPayload == EmptyDict

\* _summarize_with_budget (lines 117-125) from the pass with sample_size on.
RECURSIVE SummarizeWithBudget(_, _)
SummarizeWithBudget(data, sample_size) ==
    LET summarized == SummarizeOnce(data, sample_size)
    IN  IF WithinBudget(summarized) \/ FloorReached(sample_size)
        THEN summarized
        ELSE SummarizeWithBudget(summarized, NextSampleSize(sample_size))

\* ------------------------------------------------------------------------
\* Objects: the caller's trace and the copies analyze_run makes
\* ------------------------------------------------------------------------
\* An object is named by its kind, the step it belongs to (0: none) and who
\* created it.  A cell holds the fields of a dict, the items of a list or
\* the value of a payload.
Id(kind, j, owner) == [kind |-> kind, j |-> j, owner |-> owner]

\* None
NoRef == Id("None", 0, "caller")

RunCell(steps_ref) == [type |-> "dict", steps |-> steps_ref]

StepCell(step, inputs_ref, outputs_ref) ==
    [type |-> "dict", step |-> step, inputs |-> inputs_ref, outputs |-> outputs_ref]

ListCell(items) == [type |-> "list", items |-> items]

PayloadCell(value) == [type |-> "payload", value |-> value]

\* The reference a step of the caller holds to a payload: None for null.
PayloadRef(kind, j, value) == IF value = JNull THEN NoRef ELSE Id(kind, j, "caller")

\* The caller's objects for the trace rd whose step j carries the inputs
\* payloads[j][1] and the outputs payloads[j][2].
HeapOf(rd, payloads) ==
    LET n == Len(rd.steps)
        ids == {Id("run", 0, "caller")}
                 \cup (IF rd.has_steps THEN {Id("steps", 0, "caller")} ELSE {})
                 \cup {Id("step", j, "caller") : j \in 1..n}
                 \cup {Id("inputs", j, "caller") : j \in {k \in 1..n : payloads[k][1] # JNull}}
                 \cup {Id("outputs", j, "caller") : j \in {k \in 1..n : payloads[k][2] # JNull}}
    IN  [id \in ids |->
           CASE id.kind = "run" ->
                  RunCell(IF rd.has_steps THEN Id("steps", 0, "caller") ELSE NoRef)
             [] id.kind = "steps" -> ListCell([j \in 1..n |-> Id("step", j, "caller")])
             [] id.kind = "step" ->
                  StepCell(rd.steps[id.j],
                           PayloadRef("inputs", id.j, payloads[id.j][1]),
                           PayloadRef("outputs", id.j, payloads[id.j][2]))
             [] id.kind = "inputs" -> PayloadCell(payloads[id.j][1])
             [] id.kind = "outputs" -> PayloadCell(payloads[id.j][2])]

\* Variant: no copy is made, the new name refers to the caller's object.
CopyRefAlias(src, dst) == src

\* dict(x) (lines 91, 94): the reference to the new object.
CopyRef(src, dst) == dst

\* dict(x): the new object holds the fields of x.
CopyDict(h, src, dst) == h @@ (dst :> h[src])

\* _ensure_within_budget on the payload at ref (lines 101-115): the heap and
\* the reference returned.  None gives a new empty map, a payload within
\* budget is returned itself, any other is summarized into a new object.
NormalizePayload(h, ref, new) ==
    IF ref = NoRef
    THEN [heap |-> h @@ (new :> PayloadCell(NullPayload)), ref |-> new]
    ELSE IF WithinBudget(h[ref].value)
    THEN [heap |-> h, ref |-> ref]
    ELSE [heap |-> h @@ (new :> PayloadCell(SummarizeWithBudget(h[ref].value, SAMPLE_SIZE))),
          ref |-> new]

\* obj[field] = ref
SetField(h, obj, field, ref) == [h EXCEPT ![obj][field] = ref]

\* summarized_step[field] = self._ensure_within_budget(...) (lines 95-96),
\* for the heap and reference r that _ensure_within_budget gave.
StoreNormalized(r, obj, field) == SetField(r.heap, obj, field, r.ref)

\* Lines 95-96 for the caller's step src and its copy step_ref.
NormalizeStep(h, src, step_ref, j) ==
    StoreNormalized(
        NormalizePayload(
            StoreNormalized(
                NormalizePayload(h, h[src].inputs, Id("inputs", j, "analyzer")),
                step_ref, "inputs"),
            h[src].outputs, Id("outputs", j, "analyzer")),
        step_ref, "outputs")

\* The body of the loop of _summarize_run_data for the step src (lines 94-96).
SummarizeStep(h, src, j) ==
    NormalizeStep(CopyDict(h, src, Id("step", j, "analyzer")), src,
                  CopyRef(src, Id("step", j, "analyzer")), j)

\* summarized_steps (lines 92, 97): the references the loop appends.
SummarizedSteps(items) ==
    [j \in 1..Len(items) |-> CopyRef(items[j], Id("step", j, "analyzer"))]

\* The loop of lines 93-97 over the caller's steps list, from item j on.
RECURSIVE SummarizeSteps(_, _, _)
SummarizeSteps(h, items, j) ==
    IF j > Len(items)
    THEN h
    ELSE SummarizeSteps(SummarizeStep(h, items[j], j), items, j + 1)

\* summarized["steps"] = summarized_steps (line 98), with the new list.
AttachSteps(h, run_ref, refs) ==
    SetField(h @@ (Id("steps", 0, "analyzer") :> ListCell(refs)),
             run_ref, "steps", Id("steps", 0, "analyzer"))

\* _summarize_run_data (lines 89-99) on the caller's run_data at run_ref; it
\* returns CopyRef(run_ref, Id("run", 0, "analyzer")).
SummarizeRunData(h, run_ref) ==
    AttachSteps(
        SummarizeSteps(CopyDict(h, run_ref, Id("run", 0, "analyzer")),
                       h[h[run_ref].steps].items, 1),
        CopyRef(run_ref, Id("run", 0, "analyzer")),
        SummarizedSteps(h[h[run_ref].steps].items))

\* sorted(run_data.get('steps', []), ...) (lines 71-74): a new list of the
\* steps of the trace at run_ref, in the order in_order.
SortedList(h, run_ref, in_order) ==
    h @@ (Id("sorted", 0, "analyzer")
            :> ListCell([k \in 1..Len(in_order) |-> h[h[run_ref].steps].items[in_order[k].pos]]))

\* ------------------------------------------------------------------------
\* State
\* ------------------------------------------------------------------------
VARIABLES
    run_data,          \* the trace handed to analyze_run (never assigned again)
    pc,                \* "idle", "single", "scan", "done" (returned), "raised"
    sorted_steps,      \* local sorted_steps
    i,                 \* loop variable of the window loop
    window_results,    \* local window_results
    report,            \* the value analyze_run returned
    calls,             \* the oracle calls issued so far: window index, steps, reply
    normalize_calls,   \* number of _ensure_within_budget calls made
    parser_raised,     \* an exception has left _parse_analysis_response
    heap,              \* the objects in memory: the caller's trace and the copies
    heap0,             \* the objects of the caller's trace when analyze_run was called
    n_data,            \* the argument of _ensure_within_budget
    n_pc,              \* "off", "idle", "loop" (in _summarize_with_budget), "once", "done"
    n_sample,          \* local sample_size
    n_summarized,      \* local summarized of _summarize_with_budget
    n_passes,          \* the passes run so far: sample size, size of the result
    n_result,          \* the value returned
    n_round,           \* number of _ensure_within_budget calls completed
    spool_exists,      \* the spool directory exists
    files,             \* the *.json files of the spool directory
    clock,             \* the time, in ticks of the file timestamps
    posts,             \* the POSTs to /api/ingest attempted so far
    c_call,            \* the last client call: operation, arguments, spool and
                       \* number of POSTs before it
    c_result,          \* what the last client call returned or raised
    c_calls,           \* number of client calls made
    s_pc,              \* the ingest route: "off", "idle", "analyze" (inside line 79)
    s_db,              \* the committed rows of the runs table, oldest first
    s_call,            \* the request being handled or handled last, the rows
                       \* committed before it, and what the analyzer did
    s_response,        \* the response to it
    s_requests,        \* number of requests received
    p_pc,              \* per concurrent flush_spool call: where it is
    p_listed,          \* per call: local files
    p_newest,          \* per call: local newest
    p_todo,            \* per call: the files the unlink loop has not reached
    p_result           \* per call: flushed and failed of local results

scanvars ==
    <<run_data, pc, sorted_steps, i, window_results, report, calls,
      normalize_calls, parser_raised, heap, heap0>>

normvars == <<n_data, n_pc, n_sample, n_summarized, n_passes, n_result, n_round>>

clientvars == <<spool_exists, files, clock, posts, c_call, c_result, c_calls>>

servervars == <<s_pc, s_db, s_call, s_response, s_requests>>

procvars == <<p_pc, p_listed, p_newest, p_todo, p_result>>

vars == <<scanvars, normvars, clientvars, servervars, procvars>>

\* No client call has been made.
NoCall == [op |-> "none", before |-> {}, existed |-> FALSE, posted |-> 0]

NoResult ==
    [kind |-> "none", flushed |-> 0, failed |-> 0, errors |-> <<>>,
     sent_file |-> <<>>, spool_path |-> <<>>]

\* The ingest route is not part of the run.
NoRequest ==
    [data |-> "none", pipeline_name |-> "absent",
     steps |-> [kind |-> "absent", n |-> 0], analyze |-> "absent"]

NoResponse == [code |-> 0, status |-> "none", analysis |-> "null"]

ServerIdle ==
    /\ s_pc = "off"
    /\ s_db = <<>>
    /\ s_call = [request |-> NoRequest, before |-> <<>>, analyzer |-> "not_run"]
    /\ s_response = NoResponse
    /\ s_requests = 0

\* No flush_spool call is in progress.
ProcIdle ==
    /\ p_pc = <<>>
    /\ p_listed = <<>>
    /\ p_newest = <<>>
    /\ p_todo = <<>>
    /\ p_result = <<>>

\* The client is not part of the run.
ClientIdle ==
    /\ spool_exists = FALSE
    /\ files = {}
    /\ clock = 0
    /\ posts = <<>>
    /\ c_call = NoCall
    /\ c_result = NoResult
    /\ c_calls = 0

\* No normalizer call is in progress.
NormIdle ==
    /\ n_data = JNull
    /\ n_pc = "off"
    /\ n_sample = SAMPLE_SIZE
    /\ n_summarized = JNull
    /\ n_passes = <<>>
    /\ n_result = JNull
    /\ n_round = 0

\* No diagnosis is in progress.
ScanIdle ==
    /\ run_data = [has_steps |-> FALSE, steps |-> <<>>]
    /\ pc = "off"
    /\ sorted_steps = <<>>
    /\ i = 0
    /\ window_results = <<>>
    /\ report = NoReport
    /\ calls = <<>>
    /\ normalize_calls = 0
    /\ parser_raised = FALSE
    /\ heap = <<>>
    /\ heap0 = <<>>

\* analyze_run is called with a trace from inputs each of whose steps
\* carries one of the pairs of an inputs and an outputs payload.
InitWith(inputs, pairs) ==
    /\ NormIdle
    /\ ClientIdle
    /\ ServerIdle
    /\ ProcIdle
    /\ run_data \in inputs
    /\ heap \in {HeapOf(run_data, p) : p \in [1..Len(run_data.steps) -> pairs]}
    /\ heap0 = heap
    /\ pc = "idle"
    /\ sorted_steps = <<>>
    /\ i = 0
    /\ window_results = <<>>
    /\ report = NoReport
    /\ calls = <<>>
    /\ normalize_calls = 0
    /\ parser_raised = FALSE

\* A step without inputs and outputs.
NoPayloads == {<<JNull, JNull>>}

InitOf(inputs) == InitWith(inputs, NoPayloads)

\* ------------------------------------------------------------------------
\* analyze_run
\* ------------------------------------------------------------------------
\* Variant: only a missing "steps" key is rejected.
EmptyTraceKeyOnly(rd) == ~rd.has_steps

\* steps = run_data.get('steps', []); not steps  (lines 67-68)
EmptyTrace(rd) == ~rd.has_steps \/ rd.steps = <<>>

EmptyTraceError ==
    [NoReport EXCEPT !.keys = {"error"}, !.error = Str(<<"No steps to analyze">>)]

\* Variant: range(len(sorted_steps)).
LastWindowIndexLen(n) == n - 1

\* The last start index of range(len(sorted_steps) - 1) (line 80).
LastWindowIndex(n) == n - 2

\* sorted_steps[i:i + WINDOW_SIZE] (line 81), for a 0-based i
WindowAt(steps, idx) ==
    SubSeq(steps, idx + 1,
           IF idx + WINDOW_SIZE <= Len(steps) THEN idx + WINDOW_SIZE ELSE Len(steps))

\* Variant: the loop has no break.
BreakNever(result) == FALSE

\* if result.get('faulty_step'): break  (lines 84-85)
BreakOnFault(result) == Truthy(Get(result, "faulty_step"))

\* Variant: the same window is queried again.
RetryWindowIndex(idx) == idx

\* The next value of the loop variable (line 80).
NextWindowIndex(idx) == idx + 1

\* return self._combine_window_results(window_results, sorted_steps) (line 87)
Finish(results, steps) ==
    LET combined == CombineWindowResults(results, steps)
    IN  /\ pc' = IF combined.raised THEN "raised" ELSE "done"
        /\ report' = combined.report

\* Lines 70-74 on the objects: the summarized copy of the trace, and the new
\* list sorted() makes of the steps of that copy.
SummarizedAndSorted(h, rd) ==
    SortedList(SummarizeRunData(h, Id("run", 0, "caller")),
               CopyRef(Id("run", 0, "caller"), Id("run", 0, "analyzer")),
               SortSteps(rd.steps))

\* Lines 67-74: the empty check, the summarization of every step's inputs
\* and outputs, and the sort.
Start ==
    /\ pc = "idle"
    /\ IF EmptyTrace(run_data)
       THEN /\ pc' = "done"
            /\ report' = EmptyTraceError
            /\ UNCHANGED <<sorted_steps, normalize_calls, heap>>
       ELSE /\ normalize_calls' = 2 * Len(run_data.steps)
            /\ sorted_steps' = SortSteps(run_data.steps)
            /\ heap' = SummarizedAndSorted(heap, run_data)
            /\ pc' = IF Len(run_data.steps) <= WINDOW_SIZE THEN "single" ELSE "scan"
            /\ UNCHANGED report
    /\ UNCHANGED <<run_data, i, window_results, calls, parser_raised, heap0>>
    /\ UNCHANGED <<normvars, clientvars, servervars, procvars>>

\* The bookkeeping of one _analyze_window call.
OracleCall(window, idx, reply) ==
    /\ calls' = Append(calls, [window_index |-> idx, steps |-> window, reply |-> reply])
    /\ parser_raised' =
          (parser_raised
             \/ (reply.kind = "answer" /\ ParseAnalysisResponse(reply.content).raised))

\* Lines 76-78 and 87: at most WINDOW_SIZE steps, one window with all steps.
ScanSingle(reply) ==
    /\ pc = "single"
    /\ LET result == AnalyzeWindow(reply)
       IN  /\ OracleCall(sorted_steps, 0, reply)
           /\ window_results' = Append(window_results, result)
           /\ Finish(Append(window_results, result), sorted_steps)
    /\ UNCHANGED <<run_data, sorted_steps, i, normalize_calls, heap, heap0>>
    /\ UNCHANGED <<normvars, clientvars, servervars, procvars>>

\* Lines 80-87: one iteration of the window loop; the iteration that ends the
\* loop also combines the results.
ScanWindow(reply) ==
    /\ pc = "scan"
    /\ LET window  == WindowAt(sorted_steps, i)
           result  == AnalyzeWindow(reply)
           results == Append(window_results, result)
       IN  /\ OracleCall(window, i, reply)
           /\ window_results' = results
           /\ IF ~IsDict(result)
              THEN /\ pc' = "raised"
                   /\ UNCHANGED <<i, report>>
              ELSE IF BreakOnFault(result) \/ i >= LastWindowIndex(Len(sorted_steps))
              THEN /\ Finish(results, sorted_steps)
                   /\ UNCHANGED i
              ELSE /\ i' = NextWindowIndex(i)
                   /\ UNCHANGED <<pc, report>>
    /\ UNCHANGED <<run_data, sorted_steps, normalize_calls, heap, heap0>>
    /\ UNCHANGED <<normvars, clientvars, servervars, procvars>>

Init == InitOf(RunDataOf(TracesOf(MaxSteps, StepOrders)))

Next ==
    \/ Start
    \/ \E reply \in OracleReplies : ScanSingle(reply)
    \/ \E reply \in OracleReplies : ScanWindow(reply)

Spec == Init /\ [][Next]_vars

\* The parser specification: the first reply of a diagnosis is any text of
\* at most MaxTextLen tokens.
RepliesAt(n) == IF n = 0 THEN AllReplies ELSE OracleReplies

InitParse == InitOf(RunDataOf(TracesOf(WINDOW_SIZE + 1, {NoOrder})))

NextParse ==
    \/ Start
    \/ \E reply \in RepliesAt(Len(calls)) : ScanSingle(reply)
    \/ \E reply \in RepliesAt(Len(calls)) : ScanWindow(reply)

SpecParse == InitParse /\ [][NextParse]_vars

\* The frame specification: traces of at most WINDOW_SIZE + 1 steps whose
\* steps carry payloads: none, one within budget, one that is summarized.
SmallPayload == JDict(<<"query">>, <<JStr(5)>>)

LargePayload == JDict(<<"items">>, <<JList(MaxListLen, JStr(MaxStrLen))>>)

PayloadPairs ==
    {<<JNull, SmallPayload>>, <<SmallPayload, LargePayload>>,
     <<LargePayload, JNull>>, <<SmallPayload, SmallPayload>>}

FrameReplies ==
    {OracleRaises,
     OracleAnswers(Content(<<OBJ_OK>>)),
     OracleAnswers(Content(<<OBJ_FAULT>>)),
     OracleAnswers(Content(<<JSON_LIST>>))}

InitFrame == InitWith(RunDataOf(TracesOf(WINDOW_SIZE + 1, StepOrders)), PayloadPairs)

NextFrame ==
    \/ Start
    \/ \E reply \in FrameReplies : ScanSingle(reply)
    \/ \E reply \in FrameReplies : ScanWindow(reply)

SpecFrame == InitFrame /\ [][NextFrame]_vars

\* ------------------------------------------------------------------------
\* Payload inputs
\* ------------------------------------------------------------------------
StrLens == {0, 5, STRING_TRUNCATE, STRING_TRUNCATE + 1, MaxStrLen, MAX_PAYLOAD_SIZE + MaxStrLen}

ListLens ==
    {0, 1, MIN_SAMPLE_SIZE, MIN_SAMPLE_SIZE + 1, SAMPLE_SIZE, SAMPLE_SIZE + 1, MaxListLen}

FieldNames == <<"f1", "f2", "f3", "f4", "f5", "f6">>

\* A map of k string fields.
RecordOf(k, len) == JDict(SubSeq(FieldNames, 1, k), [j \in 1..k |-> JStr(len)])

Leaves == {JNull, JNum(0), JNum(7)} \cup {JStr(len) : len \in StrLens}

Elements ==
    Leaves
      \cup {RecordOf(k, len) : k \in 1..MaxFields, len \in {5, MaxStrLen}}
      \cup {JList(n, JStr(STRING_TRUNCATE)) : n \in {MIN_SAMPLE_SIZE, SAMPLE_SIZE + 1}}

Lists == {JList(n, e) : n \in ListLens, e \in Elements}

\* Maps with a list under "items": alone, beside other entries, beside an
\* entry named "items_total_count" (after or before it), and one level down.
Maps ==
    {EmptyDict}
      \cup {JDict(<<"items">>, <<l>>) : l \in Lists}
      \cup {JDict(<<"text", "items">>, <<JStr(MaxStrLen), l>>) : l \in Lists}
      \cup {JDict(<<"items", "items_total_count">>, <<l, JNum(7)>>) : l \in Lists}
      \cup {JDict(<<"items_total_count", "items">>, <<JNum(7), l>>) : l \in Lists}
      \cup {JDict(<<"nested">>, <<JDict(<<"items">>, <<l>>)>>) : l \in Lists}

Payloads == Leaves \cup Lists \cup Maps

\* The sample sizes a pass is run with.
SampleSizes ==
    {SAMPLE_SIZE, NextSampleSize(SAMPLE_SIZE), NextSampleSize(NextSampleSize(SAMPLE_SIZE)),
     NextSampleSize(NextSampleSize(NextSampleSize(SAMPLE_SIZE))), MIN_SAMPLE_SIZE}

\* ------------------------------------------------------------------------
\* _ensure_within_budget, _summarize_with_budget
\* ------------------------------------------------------------------------
\* Lines 101-112 and 118-119: the null check, the fast path, and the entry
\* into the summarization loop.
EnsureWithinBudget ==
    /\ n_pc = "idle"
    /\ IF n_data = JNull
       THEN /\ n_result' = NullPayload
            /\ n_pc' = "done"
            /\ n_round' = n_round + 1
            /\ UNCHANGED <<n_sample, n_summarized>>
       ELSE IF WithinBudget(n_data)
       THEN /\ n_result' = n_data
            /\ n_pc' = "done"
            /\ n_round' = n_round + 1
            /\ UNCHANGED <<n_sample, n_summarized>>
       ELSE /\ n_pc' = "loop"
            /\ n_sample' = SAMPLE_SIZE
            /\ n_summarized' = n_data
            /\ UNCHANGED <<n_result, n_round>>
    /\ n_passes' = <<>>
    /\ UNCHANGED n_data
    /\ UNCHANGED <<scanvars, clientvars, servervars, procvars>>

\* Lines 120-125 and 113-115: one iteration of the while loop; the iteration
\* that returns also returns from _ensure_within_budget.
SummarizePass ==
    /\ n_pc = "loop"
    /\ LET summarized == SummarizeOnce(n_summarized, n_sample)
           size == JsonSize(summarized)
       IN  /\ n_summarized' = summarized
           /\ n_passes' = Append(n_passes, [sample_size |-> n_sample, size |-> size])
           /\ IF WithinBudget(summarized) \/ FloorReached(n_sample)
              THEN /\ n_result' = summarized
                   /\ n_pc' = "done"
                   /\ n_round' = n_round + 1
                   /\ UNCHANGED n_sample
              ELSE /\ n_sample' = NextSampleSize(n_sample)
                   /\ UNCHANGED <<n_pc, n_result, n_round>>
    /\ UNCHANGED n_data
    /\ UNCHANGED <<scanvars, clientvars, servervars, procvars>>

\* A further call of _ensure_within_budget, on the value the previous call
\* returned.
NormalizeAgain ==
    /\ n_pc = "done"
    /\ n_round < MaxRounds
    /\ n_data' = n_result
    /\ n_pc' = "idle"
    /\ UNCHANGED <<n_sample, n_summarized, n_passes, n_result, n_round>>
    /\ UNCHANGED <<scanvars, clientvars, servervars, procvars>>

InitNorm ==
    /\ ScanIdle
    /\ ClientIdle
    /\ ServerIdle
    /\ ProcIdle
    /\ n_data \in Payloads
    /\ n_pc = "idle"
    /\ n_sample = SAMPLE_SIZE
    /\ n_summarized = JNull
    /\ n_passes = <<>>
    /\ n_result = JNull
    /\ n_round = 0

NextNorm ==
    \/ EnsureWithinBudget
    \/ SummarizePass
    \/ NormalizeAgain

SpecNorm == InitNorm /\ [][NextNorm]_vars

\* One pass of _summarize_once on any payload with any of the sample sizes.
ApplyOnce ==
    /\ n_pc = "once"
    /\ n_result' = SummarizeOnce(n_data, n_sample)
    /\ n_pc' = "done"
    /\ n_round' = n_round + 1
    /\ UNCHANGED <<n_data, n_sample, n_summarized, n_passes>>
    /\ UNCHANGED <<scanvars, clientvars, servervars, procvars>>

InitOnce ==
    /\ ScanIdle
    /\ ClientIdle
    /\ ServerIdle
    /\ ProcIdle
    /\ n_data \in Payloads
    /\ n_pc = "once"
    /\ n_sample \in SampleSizes
    /\ n_summarized = JNull
    /\ n_passes = <<>>
    /\ n_result = JNull
    /\ n_round = 0

NextOnce == ApplyOnce

SpecOnce == InitOnce /\ [][NextOnce]_vars

\* ------------------------------------------------------------------------
\* XRayClient: send, spool, flush_spool (src/xray_sdk/client.py)
\* ------------------------------------------------------------------------
\* A run is its pipeline_name, written as the segments between the path
\* separators it contains, and a tag standing for the rest of run.to_dict().
Runs ==
    {[pipeline_name |-> <<"pipe">>, tag |-> "new1"],
     [pipeline_name |-> <<"pipe">>, tag |-> "new2"],
     [pipeline_name |-> <<"etl", "daily">>, tag |-> "new3"]}

\* What happens to a POST: a 2xx response with its JSON body, or one of the
\* requests.exceptions.RequestException cases (raise_for_status included).
Outcomes == {"ok", "connection_error", "timeout", "http_error"}

\* spool_dir / f"{run.pipeline_name}_{timestamp}.json" (lines 85-87)
FilePath(run, timestamp) == [pipeline_name |-> run.pipeline_name, timestamp |-> timestamp]

\* open(filepath, "w") succeeds when the file lies in the spool directory
\* itself: a separator in the name points into a directory nobody created.
PathOpens(path) == Len(path.pipeline_name) = 1

\* json.dump(run.to_dict(), f, ...) (lines 89-90): the file holds the run,
\* without the analyze option.
SpooledFile(run, timestamp) ==
    [path |-> FilePath(run, timestamp), mtime |-> timestamp,
     body |-> [run |-> run, analyze |-> "absent"], readable |-> TRUE]

\* Files an earlier process left in the spool directory: two complete ones
\* and one that json.load cannot read; two carry the same modification time.
EarlierFiles ==
    {[path |-> [pipeline_name |-> <<"pipe">>, timestamp |-> 1], mtime |-> 1,
      body |-> [run |-> [pipeline_name |-> <<"pipe">>, tag |-> "old1"], analyze |-> "absent"],
      readable |-> TRUE],
     [path |-> [pipeline_name |-> <<"pipe">>, timestamp |-> 2], mtime |-> 3,
      body |-> [run |-> [pipeline_name |-> <<"pipe">>, tag |-> "old2"], analyze |-> "absent"],
      readable |-> TRUE],
     [path |-> [pipeline_name |-> <<"pipe">>, timestamp |-> 3], mtime |-> 3,
      body |-> [run |-> [pipeline_name |-> <<"pipe">>, tag |-> "cut"], analyze |-> "absent"],
      readable |-> FALSE]}

FirstTick == 4

\* Variant: the file modified first is taken.
NewestFilesOldest(fs) == {f \in fs : \A g \in fs : f.mtime <= g.mtime}

\* max(files, key=lambda p: p.stat().st_mtime) (line 112): a file with the
\* greatest modification time; which one of several is up to the order in
\* which glob lists them.
NewestFiles(fs) == {f \in fs : \A g \in fs : g.mtime <= f.mtime}

\* The JSON text of payload["analyze"] = analyze (line 50, sent at line 54).
JsonBool(b) == IF b THEN "true" ELSE "false"

\* The bookkeeping of a POST to /api/ingest.
Post(by, body, outcome) ==
    posts' = Append(posts, [by |-> by, body |-> body, outcome |-> outcome])

\* send (lines 35-67) with spool (lines 69-92).
Send(run, analyze, outcome) ==
    /\ c_calls < MaxClientCalls
    /\ c_calls' = c_calls + 1
    /\ clock' = clock + 1
    /\ c_call' = [op |-> "send", run |-> run, analyze |-> analyze, outcome |-> outcome,
                  before |-> files, existed |-> spool_exists, posted |-> Len(posts)]
    /\ Post("send", [run |-> run, analyze |-> JsonBool(analyze)], outcome)
    /\ IF outcome = "ok"
       THEN /\ c_result' = [NoResult EXCEPT !.kind = "response"]
            /\ UNCHANGED <<spool_exists, files>>
       ELSE /\ spool_exists' = TRUE
            /\ IF PathOpens(FilePath(run, clock))
               THEN /\ files' = {f \in files : f.path # FilePath(run, clock)}
                                   \cup {SpooledFile(run, clock)}
                    /\ c_result' = [NoResult EXCEPT !.kind = "spooled",
                                                    !.spool_path = FilePath(run, clock)]
               ELSE /\ c_result' = [NoResult EXCEPT !.kind = "raised"]
                    /\ UNCHANGED files
    /\ UNCHANGED <<scanvars, normvars, servervars, procvars>>

\* Variant: the failure is counted, the file is not named.
FlushFailedUnnamed(newest) ==
    [NoResult EXCEPT !.kind = "flush_sent", !.failed = 1, !.sent_file = newest.path]

\* The result of a flush whose attempt raised (lines 113, 132-134):
\* failed = 1 and one error entry naming the newest file.
FlushFailed(newest) ==
    [NoResult EXCEPT !.kind = "flush_sent", !.failed = 1,
                     !.errors = <<newest.path>>, !.sent_file = newest.path]

\* flush_spool (lines 94-136).
FlushSpool(outcome) ==
    /\ c_calls < MaxClientCalls
    /\ c_calls' = c_calls + 1
    /\ clock' = clock + 1
    /\ c_call' = [op |-> "flush", run |-> <<>>, analyze |-> FALSE, outcome |-> outcome,
                  before |-> files, existed |-> spool_exists, posted |-> Len(posts)]
    /\ IF ~spool_exists \/ files = {}
       THEN /\ c_result' = [NoResult EXCEPT !.kind = "flush"]
            /\ UNCHANGED <<spool_exists, files, posts>>
       ELSE \E newest \in NewestFiles(files) :
              IF ~newest.readable
              THEN /\ c_result' = FlushFailed(newest)
                   /\ UNCHANGED <<spool_exists, files, posts>>
              ELSE /\ Post("flush", newest.body, outcome)
                   /\ IF outcome = "ok"
                      THEN /\ c_result' = [NoResult EXCEPT !.kind = "flush_sent", !.flushed = 1,
                                               !.sent_file = newest.path]
                           /\ files' = {}
                      ELSE /\ c_result' = FlushFailed(newest)
                           /\ UNCHANGED files
                   /\ UNCHANGED spool_exists
    /\ UNCHANGED <<scanvars, normvars, servervars, procvars>>

\* The client starts with a spool directory that is missing, empty, or holds
\* files of an earlier process.
InitClient ==
    /\ ScanIdle
    /\ NormIdle
    /\ ServerIdle
    /\ ProcIdle
    /\ spool_exists \in BOOLEAN
    /\ files \in (IF spool_exists THEN SUBSET EarlierFiles ELSE {{}})
    /\ clock = FirstTick
    /\ posts = <<>>
    /\ c_call = NoCall
    /\ c_result = NoResult
    /\ c_calls = 0

NextClient ==
    \/ \E run \in Runs, analyze \in BOOLEAN, outcome \in Outcomes : Send(run, analyze, outcome)
    \/ \E outcome \in Outcomes : FlushSpool(outcome)

SpecClient == InitClient /\ [][NextClient]_vars

\* ------------------------------------------------------------------------
\* flush_spool line by line: two calls on one spool directory, and sends
\* that spool meanwhile
\* ------------------------------------------------------------------------
Flushers == {"f1", "f2"}

\* The file is still in the spool directory.
Exists(f) == \E g \in files : g.path = f.path

\* results of line 113
FlushStarted == [flushed |-> 0, failed |-> 0]

\* Lines 104-110: the directory is listed; a missing or empty one returns
\* {flushed: 0, failed: 0}.
FlushList(p) ==
    /\ p_pc[p] = "start"
    /\ IF ~spool_exists \/ files = {}
       THEN /\ p_pc' = [p_pc EXCEPT ![p] = "returned"]
            /\ UNCHANGED p_listed
       ELSE /\ p_pc' = [p_pc EXCEPT ![p] = "pick"]
            /\ p_listed' = [p_listed EXCEPT ![p] = files]
    /\ UNCHANGED <<p_newest, p_todo, p_result>>
    /\ UNCHANGED <<scanvars, normvars, clientvars, servervars>>

\* Lines 112-113: p.stat() on every listed file, outside the try block: a
\* file that is gone by now raises FileNotFoundError out of flush_spool.
FlushPick(p) ==
    /\ p_pc[p] = "pick"
    /\ IF \A f \in p_listed[p] : Exists(f)
       THEN \E newest \in NewestFiles(p_listed[p]) :
               /\ p_newest' = [p_newest EXCEPT ![p] = {newest}]
               /\ p_pc' = [p_pc EXCEPT ![p] = "read"]
       ELSE /\ p_pc' = [p_pc EXCEPT ![p] = "raised"]
            /\ UNCHANGED p_newest
    /\ UNCHANGED <<p_listed, p_todo, p_result>>
    /\ UNCHANGED <<scanvars, normvars, clientvars, servervars>>

\* The handler of lines 132-134.
FlushRaised(results) == [results EXCEPT !.failed = 1]

\* Lines 116-117: open and json.load of the newest file.
FlushRead(p) ==
    /\ p_pc[p] = "read"
    /\ \E newest \in p_newest[p] :
          IF Exists(newest) /\ newest.readable
          THEN /\ p_pc' = [p_pc EXCEPT ![p] = "post"]
               /\ UNCHANGED p_result
          ELSE /\ p_pc' = [p_pc EXCEPT ![p] = "returned"]
               /\ p_result' = [p_result EXCEPT ![p] = FlushRaised(@)]
    /\ UNCHANGED <<p_listed, p_newest, p_todo>>
    /\ UNCHANGED <<scanvars, normvars, clientvars, servervars>>

\* Lines 119-127: the POST of the contents read.
FlushPost(p, outcome) ==
    /\ p_pc[p] = "post"
    /\ \E newest \in p_newest[p] : Post(p, newest.body, outcome)
    /\ IF outcome = "ok"
       THEN /\ p_result' = [p_result EXCEPT ![p].flushed = 1]
            /\ p_todo' = [p_todo EXCEPT ![p] = p_listed[p]]
            /\ p_pc' = [p_pc EXCEPT ![p] = "unlink"]
       ELSE /\ p_result' = [p_result EXCEPT ![p] = FlushRaised(@)]
            /\ p_pc' = [p_pc EXCEPT ![p] = "returned"]
            /\ UNCHANGED p_todo
    /\ UNCHANGED <<p_listed, p_newest>>
    /\ UNCHANGED <<spool_exists, files, clock, c_call, c_result, c_calls>>
    /\ UNCHANGED <<scanvars, normvars, servervars>>

\* Lines 130-131: one iteration of the unlink loop, on any file not yet
\* reached (glob lists in no particular order).  unlinked: the operating
\* system lets the file be removed; unlink of a file that is gone raises.
FlushUnlink(p, unlinked) ==
    /\ p_pc[p] = "unlink"
    /\ \E f \in p_todo[p] :
          IF Exists(f) /\ unlinked
          THEN /\ files' = {g \in files : g.path # f.path}
               /\ p_todo' = [p_todo EXCEPT ![p] = @ \ {f}]
               /\ p_pc' = [p_pc EXCEPT ![p] = IF p_todo[p] = {f} THEN "returned" ELSE "unlink"]
               /\ UNCHANGED p_result
          ELSE /\ p_result' = [p_result EXCEPT ![p] = FlushRaised(@)]
               /\ p_pc' = [p_pc EXCEPT ![p] = "returned"]
               /\ UNCHANGED <<files, p_todo>>
    /\ UNCHANGED <<p_listed, p_newest>>
    /\ UNCHANGED <<spool_exists, clock, posts, c_call, c_result, c_calls>>
    /\ UNCHANGED <<scanvars, normvars, servervars>>

\* What happens to a POST while the flushes run.
FlushOutcomes == {"ok", "http_error"}

\* The run of the one send made while the flushes run.
MeanwhileRuns == {r \in Runs : r.tag = "new1"}

\* Two flush_spool calls are about to run on a spool directory that holds
\* files of an earlier process.
InitFlush ==
    /\ ScanIdle
    /\ NormIdle
    /\ ServerIdle
    /\ spool_exists = TRUE
    /\ files \in SUBSET EarlierFiles
    /\ clock = FirstTick
    /\ posts = <<>>
    /\ c_call = NoCall
    /\ c_result = NoResult
    /\ c_calls = 0
    /\ p_pc = [p \in Flushers |-> "start"]
    /\ p_listed = [p \in Flushers |-> {}]
    /\ p_newest = [p \in Flushers |-> {}]
    /\ p_todo = [p \in Flushers |-> {}]
    /\ p_result = [p \in Flushers |-> FlushStarted]

NextFlush ==
    \/ \E p \in Flushers : FlushList(p)
    \/ \E p \in Flushers : FlushPick(p)
    \/ \E p \in Flushers : FlushRead(p)
    \/ \E p \in Flushers, outcome \in FlushOutcomes : FlushPost(p, outcome)
    \/ \E p \in Flushers, unlinked \in BOOLEAN : FlushUnlink(p, unlinked)
    \/ \E run \in MeanwhileRuns, outcome \in FlushOutcomes :
          c_calls = 0 /\ Send(run, TRUE, outcome)

SpecFlush == InitFlush /\ [][NextFlush]_vars

\* ------------------------------------------------------------------------
\* POST /api/ingest: ingest_run (src/xray_api/routes/ingest.py) on the runs
\* table (src/xray_api/models.py)
\* ------------------------------------------------------------------------
\* The JSON values of the key "analyze" of a request body; "absent" is a
\* body without the key.
AnalyzeValues == {"absent", "true", "false", "null"}

\* The key "steps" of a request body: absent, a list of n objects, or a list
\* whose elements are not objects.
StepLists ==
    {[kind |-> "absent", n |-> 0], [kind |-> "strings", n |-> 1]}
      \cup {[kind |-> "objects", n |-> n] : n \in 0..MaxRequestSteps}

\* The request bodies: no JSON or an empty object, or an object whose
\* pipeline_name is absent, empty or a name.
Requests ==
    {[data |-> "empty", pipeline_name |-> "absent",
      steps |-> [kind |-> "absent", n |-> 0], analyze |-> "absent"]}
      \cup {[data |-> "object", pipeline_name |-> name, steps |-> steps, analyze |-> analyze] :
               name \in {"absent", "", "orders"},
               steps \in StepLists,
               analyze \in AnalyzeValues}

\* Lines 30-39: the three checks that answer 400.
Rejected(data) ==
    \/ data.data = "empty"
    \/ data.pipeline_name \in {"absent", ""}
    \/ data.steps.kind = "absent"
    \/ data.steps.n = 0

\* step_data.get(...) (lines 62-65) works on objects only.
StepsAreObjects(data) == data.steps.kind = "objects"

\* Variant: analysis is off unless asked for.
ShouldAnalyzeDefaultOff(analyze) == analyze = "true"

\* should_analyze = data.get('analyze', True), tested for truth (lines 72
\* and 75).
ShouldAnalyze(analyze) == analyze \in {"absent", "true"}

\* Run(pipeline_id=..., status='received', ...) with its steps (lines
\* 50-67); analysis_result has no default and is NULL.
ReceivedRun(data) ==
    [pipeline_name |-> data.pipeline_name, status |-> "received",
     analysis_result |-> "null", steps |-> data.steps.n]

\* run.status = ...; run.analysis_result = ... on the run of this request,
\* the row added last.
UpdateRun(db, status, analysis_result) ==
    [db EXCEPT ![Len(db)] =
        [@ EXCEPT !.status = status, !.analysis_result = analysis_result]]

\* run.to_dict(include_steps=True) (models.py lines 45-57): the steps of the
\* run in the order of their step_order; step j of the request carries the
\* order j.
RunDict(n) ==
    [has_steps |-> TRUE,
     steps |-> [j \in 1..n |-> [step_name |-> ToString(j), step_order |-> j, pos |-> j]]]

\* inputs and outputs of a stored step: step_data.get('inputs', {}).
StoredPayloads(n) == [j \in 1..n |-> <<EmptyDict, EmptyDict>>]

\* analyzer.analyze_run(run_dict) is entered (line 79).
EnterAnalyzeRun(n) ==
    /\ run_data' = RunDict(n)
    /\ heap' = HeapOf(RunDict(n), StoredPayloads(n))
    /\ heap0' = HeapOf(RunDict(n), StoredPayloads(n))
    /\ pc' = "idle"
    /\ sorted_steps' = <<>>
    /\ i' = 0
    /\ window_results' = <<>>
    /\ report' = NoReport
    /\ calls' = <<>>
    /\ normalize_calls' = 0
    /\ parser_raised' = FALSE

\* The analyzer and its locals are gone when the request is answered.
LeaveAnalyzer ==
    /\ run_data' = [has_steps |-> FALSE, steps |-> <<>>]
    /\ heap' = <<>>
    /\ heap0' = <<>>
    /\ pc' = "off"
    /\ sorted_steps' = <<>>
    /\ i' = 0
    /\ window_results' = <<>>
    /\ report' = NoReport
    /\ calls' = <<>>
    /\ normalize_calls' = 0
    /\ parser_raised' = FALSE

\* return jsonify({...}), 201 (lines 93-98)
Created(status, analysis) == [code |-> 201, status |-> status, analysis |-> analysis]

\* The answers of lines 31-39 and of the handler of lines 100-102.
Refused(code) == [NoResponse EXCEPT !.code = code]

\* Lines 28-75 and 89-98: the checks, the rows of the run and its steps and
\* their commit, and the branch without analysis.  committed: the commit of
\* line 69 succeeds; stored: the commit of line 91 succeeds.  An exception
\* inside the try block rolls back what is not committed and answers 500.
IngestRun(data, committed, stored) ==
    /\ s_pc = "idle"
    /\ s_requests < MaxRequests
    /\ s_requests' = s_requests + 1
    /\ s_call' = [request |-> data, before |-> s_db, analyzer |-> "not_run"]
    /\ IF Rejected(data)
       THEN /\ s_response' = Refused(400)
            /\ UNCHANGED <<s_pc, s_db, scanvars>>
       ELSE IF ~StepsAreObjects(data) \/ ~committed
       THEN /\ s_response' = Refused(500)
            /\ UNCHANGED <<s_pc, s_db, scanvars>>
       ELSE IF ShouldAnalyze(data.analyze)
       THEN /\ s_db' = Append(s_db, ReceivedRun(data))
            /\ s_pc' = "analyze"
            /\ s_response' = NoResponse
            /\ EnterAnalyzeRun(data.steps.n)
       ELSE /\ s_db' = IF stored
                       THEN UpdateRun(Append(s_db, ReceivedRun(data)), "stored", "null")
                       ELSE Append(s_db, ReceivedRun(data))
            /\ s_response' = IF stored THEN Created("stored", "null") ELSE Refused(500)
            /\ UNCHANGED <<s_pc, scanvars>>
    /\ UNCHANGED <<normvars, clientvars, procvars>>

\* Lines 85-88 and 93-102: the handler of the analysis, and the answer.
\* saved: the commit of line 88 succeeds.
AnalysisHandler(saved, analysis, how) ==
    /\ s_db' = IF saved THEN UpdateRun(s_db, "analysis_failed", "error") ELSE s_db
    /\ s_response' = IF saved THEN Created("analysis_failed", analysis) ELSE Refused(500)
    /\ s_call' = [s_call EXCEPT !.analyzer = how]
    /\ s_pc' = "idle"
    /\ LeaveAnalyzer

\* Lines 77-79 raise: XRayAnalyzer() finds no API key, or analyze_run
\* raises.
AnalysisFailed(saved) ==
    /\ s_pc = "analyze"
    /\ pc \in {"idle", "raised"}
    /\ AnalysisHandler(saved, "null", IF pc = "idle" THEN "no_analyzer" ELSE "raised")
    /\ UNCHANGED s_requests
    /\ UNCHANGED <<normvars, clientvars, procvars>>

\* Lines 79-84: analyze_run returned; the result and the status 'analyzed'
\* are committed (line 84), or that commit raises and the handler runs.
AnalysisSaved(committed, saved) ==
    /\ s_pc = "analyze"
    /\ pc = "done"
    /\ IF committed
       THEN /\ s_db' = UpdateRun(s_db, "analyzed", "report")
            /\ s_response' = Created("analyzed", "report")
            /\ s_call' = [s_call EXCEPT !.analyzer = "returned"]
            /\ s_pc' = "idle"
            /\ LeaveAnalyzer
       ELSE AnalysisHandler(saved, "report", "returned")
    /\ UNCHANGED s_requests
    /\ UNCHANGED <<normvars, clientvars, procvars>>

\* The replies of the oracle to the analyzer of the route.
IngestReplies ==
    {OracleRaises,
     OracleAnswers(Content(<<PROSE>>)),
     OracleAnswers(Content(<<WS, FENCE, JSONWORD, WS, OBJ_OK, WS, FENCE>>)),
     OracleAnswers(Content(<<OBJ_FAULT>>)),
     OracleAnswers(Content(<<JSON_LIST>>))}

\* The server starts with an empty runs table.
InitIngest ==
    /\ ScanIdle
    /\ NormIdle
    /\ ClientIdle
    /\ ProcIdle
    /\ s_pc = "idle"
    /\ s_db = <<>>
    /\ s_call = [request |-> NoRequest, before |-> <<>>, analyzer |-> "not_run"]
    /\ s_response = NoResponse
    /\ s_requests = 0

NextIngest ==
    \/ \E data \in Requests, committed, stored \in BOOLEAN : IngestRun(data, committed, stored)
    \/ Start
    \/ \E reply \in IngestReplies : ScanSingle(reply)
    \/ \E reply \in IngestReplies : ScanWindow(reply)
    \/ \E saved \in BOOLEAN : AnalysisFailed(saved)
    \/ \E committed, saved \in BOOLEAN : AnalysisSaved(committed, saved)

SpecIngest == InitIngest /\ [][NextIngest]_vars

\* ------------------------------------------------------------------------
\* Properties
\* ------------------------------------------------------------------------
NumSteps == Len(run_data.steps)

\* The number of windows of a trace of n >= 1 steps.
WindowsOf(n) == IF n <= WINDOW_SIZE THEN 1 ELSE n - 1

\* The verdict of window j (1-based) names a faulty step: a true value.
ReportsFault(j) ==
    IsDict(window_results[j]) /\ Truthy(Get(window_results[j], "faulty_step"))

\* The verdict of window j has a faulty_step that is not null.
NonNullFault(j) ==
    /\ IsDict(window_results[j])
    /\ "faulty_step" \in window_results[j].keys
    /\ window_results[j].f["faulty_step"] # None

\* C1 as stated: in a trace of more than 2 steps no window is sent to the
\* oracle after a window whose verdict has a non-null faulty_step, whatever
\* the non-null value is.
C1_StopOnNonNull ==
    NumSteps > WINDOW_SIZE =>
        \A j \in 1..Len(window_results) : NonNullFault(j) => j = Len(calls)

\* C1 amended: in a trace of more than 2 steps the scan stops at the first
\* window whose verdict has a true faulty_step (not null, not "", 0 or
\* false): that window is the last one sent to the oracle and analyze_run
\* has returned.
C1_StopOnFault ==
    NumSteps > WINDOW_SIZE =>
        \A j \in 1..Len(window_results) :
            ReportsFault(j) => j = Len(calls) /\ pc = "done"

C1_Witness ==
    /\ NumSteps = 5
    /\ Len(calls) = 2
    /\ ReportsFault(2)
    /\ pc = "done"

\* C2 as stated: the report is built from the first verdict whose
\* faulty_step is non-null, and windows_analyzed is its 1-based index.
C2_FirstNonNull ==
    (pc = "done" /\ \E j \in 1..Len(window_results) : NonNullFault(j)) =>
        LET first == CHOOSE j \in 1..Len(window_results) :
                        NonNullFault(j) /\ \A k \in 1..(j - 1) : ~NonNullFault(k)
        IN  /\ report.faulty_step = window_results[first].f["faulty_step"]
            /\ report.windows_analyzed = first

\* C2 amended: when a window reports a fault (a true faulty_step), the
\* report copies faulty_step, faulty_step_order and reason of the first such
\* verdict in scan order, and windows_analyzed is its 1-based index.
C2_FirstFault ==
    (pc = "done" /\ \E j \in 1..Len(window_results) : ReportsFault(j)) =>
        LET first == CHOOSE j \in 1..Len(window_results) :
                        ReportsFault(j) /\ \A k \in 1..(j - 1) : ~ReportsFault(k)
        IN  /\ report.keys = FaultKeys
            /\ report.faulty_step = window_results[first].f["faulty_step"]
            /\ report.faulty_step_order = window_results[first].f["faulty_step_order"]
            /\ report.reason = window_results[first].f["reason"]
            /\ report.windows_analyzed = first

C2_Witness ==
    /\ pc = "done"
    /\ NumSteps = 5
    /\ Len(window_results) = 3
    /\ ReportsFault(3)
    /\ report.windows_analyzed = 3
    /\ report.faulty_step = Str(<<"filter">>)

\* C3: when analyze_run has ended and every window verdict is a verdict
\* without a faulty step, it has returned the clean report: faulty_step and
\* faulty_step_order null, one "ok" entry per step in sorted order, and
\* windows_analyzed = n-1 for n > 2 steps and 1 for 1 or 2 steps.
C3_CleanReport ==
    (/\ pc \in {"done", "raised"}
     /\ NumSteps >= 1
     /\ \A j \in 1..Len(window_results) :
           IsDict(window_results[j]) /\ ~ReportsFault(j)) =>
        /\ pc = "done"
        /\ report.keys = CleanKeys
        /\ report.faulty_step = None
        /\ report.faulty_step_order = None
        /\ Len(report.all_steps_analysis) = NumSteps
        /\ \A j \in 1..NumSteps :
              /\ report.all_steps_analysis[j].step = sorted_steps[j].step_name
              /\ report.all_steps_analysis[j].status = "ok"
        /\ report.windows_analyzed = Len(calls)
        /\ report.windows_analyzed = WindowsOf(NumSteps)

C3_Witness ==
    /\ pc = "done"
    /\ NumSteps = 5
    /\ report.keys = CleanKeys
    /\ report.windows_analyzed = 4
    /\ Len(report.all_steps_analysis) = 5

\* C4: an exception of the oracle call in a window becomes the verdict
\* {error, faulty_step: null}; the scan goes on with the next window, and a
\* fault reported by a later window is the faulty step of the report.
C4_OracleErrorAbsorbed ==
    \A j \in 1..Len(calls) :
        calls[j].reply.kind = "exception" =>
            /\ IsDict(window_results[j])
            /\ window_results[j].keys = {"error", "faulty_step"}
            /\ window_results[j].f["faulty_step"] = None
            /\ window_results[j].f["error"].t = "str"
            /\ (j = Len(calls) /\ j < WindowsOf(NumSteps)) => (pc = "scan" /\ i = j)
            /\ \A k \in (j + 1)..Len(window_results) :
                  (pc = "done" /\ ReportsFault(k)) =>
                      report.faulty_step = window_results[k].f["faulty_step"]

C4_Witness ==
    /\ pc = "done"
    /\ Len(calls) = 3
    /\ calls[2].reply.kind = "exception"
    /\ ReportsFault(3)
    /\ report.faulty_step = Str(<<"filter">>)

\* C5: a trace with no steps (steps = [] or no steps key) ends in the
\* "No steps to analyze" error, with no normalization, no sort and no
\* oracle call.
C5_EmptyTraceRejected ==
    (NumSteps = 0 /\ pc # "idle") =>
        /\ pc = "done"
        /\ report = EmptyTraceError
        /\ report.keys = {"error"}
        /\ calls = <<>>
        /\ window_results = <<>>
        /\ normalize_calls = 0

C5_Witness ==
    /\ pc = "done"
    /\ run_data.has_steps
    /\ run_data.steps = <<>>
    /\ report.keys = {"error"}

\* A report with the six fields of a DiagnosticReport.
WellFormedReport(r) ==
    /\ FaultKeys \subseteq r.keys
    /\ r.analysis_method = Str(<<"sliding_window">>)
    /\ r.windows_analyzed >= 1

\* C6: for a non-empty trace analyze_run never raises, whatever the oracle
\* does, and what it returns is a well-formed report.
C6_NeverRaises ==
    NumSteps >= 1 =>
        /\ pc # "raised"
        /\ pc = "done" => WellFormedReport(report)

\* The part of a text between its first and its last non-whitespace token.
Core(text) ==
    LET inked == {k \in 1..Len(text) : text[k] # WS}
    IN  IF inked = {}
        THEN <<>>
        ELSE SubSeq(text,
                    CHOOSE k \in inked : \A m \in inked : k <= m,
                    CHOOSE k \in inked : \A m \in inked : k >= m)

\* The texts that are one JSON document, with optional whitespace around it
\* and optional fence markers: an opening fence with or without the word
\* json, and a closing fence.
FencedDocument(text) ==
    \E p \in 1..Len(text) :
        /\ text[p] \in JsonDocuments
        /\ Core(SubSeq(text, 1, p - 1))
              \in {<<>>, <<FENCE>>, <<FENCE, JSONWORD>>, <<FENCE, JSONWORD, FENCE>>}
        /\ Core(SubSeq(text, p + 1, Len(text))) \in {<<>>, <<FENCE>>}

\* C7: an oracle text that is not a JSON document (after the whitespace and
\* the fence markers are stripped) gives the degraded verdict: faulty_step
\* and faulty_step_order null, reason and raw_response the text as
\* received, the fixed suggestion; and the scan does not stop on it.
C7_DegradedVerdict ==
    \A j \in 1..Len(calls) :
        LET reply == calls[j].reply
        IN  (reply.kind = "answer" /\ reply.content.has
               /\ ~FencedDocument(reply.content.text)) =>
              /\ IsDict(window_results[j])
              /\ window_results[j].keys =
                    {"faulty_step", "faulty_step_order", "reason", "suggestion",
                     "raw_response"}
              /\ window_results[j].f["faulty_step"] = None
              /\ window_results[j].f["faulty_step_order"] = None
              /\ window_results[j].f["reason"] = Str(reply.content.text)
              /\ window_results[j].f["suggestion"] = Str(<<UNABLE_TO_PARSE>>)
              /\ window_results[j].f["raw_response"] = Str(reply.content.text)
              /\ (j = Len(calls) /\ j < WindowsOf(NumSteps)) => (pc = "scan" /\ i = j)

C7_Witness ==
    /\ NumSteps = 3
    /\ Len(calls) = 1
    /\ calls[1].reply = OracleAnswers(Content(<<WS, FENCE, PROSE, WS>>))
    /\ window_results[1].f["raw_response"] = Str(<<WS, FENCE, PROSE, WS>>)
    /\ pc = "scan"

\* C8: no exception ever leaves _parse_analysis_response.
C8_ParserNeverRaises == ~parser_raised

\* C9: the oracle calls of one diagnosis are made for the windows 0, 1, 2,
\* ... in this order, each window once; a call is followed by another only
\* when its verdict is fault-free; an error or an unparseable answer is not
\* asked again.
C9_SequentialOnce ==
    /\ Len(calls) = Len(window_results)
    /\ NumSteps >= 1 => Len(calls) <= WindowsOf(NumSteps)
    /\ \A j \in 1..Len(calls) :
          /\ calls[j].window_index = j - 1
          /\ j < Len(calls) => (IsDict(window_results[j]) /\ ~ReportsFault(j))
    /\ \A j, k \in 1..Len(calls) :
          calls[j].window_index = calls[k].window_index => j = k

C9_Witness ==
    /\ pc = "done"
    /\ NumSteps = 5
    /\ Len(calls) = 4
    /\ calls[1].reply.kind = "exception"
    /\ calls[2].reply = OracleAnswers(Content(<<PROSE>>))
    /\ calls[3].reply = OracleAnswers(NoContent)

\* The sort key the claim states: the sequence number, 0 when it is missing.
SequenceNumber(step) == IF step.step_order = NoOrder THEN 0 ELSE step.step_order

\* C10: before the first window is scanned the steps are in ascending order
\* of their sequence number (0 when missing), steps with equal numbers in
\* their array order; each window of a trace of more than 2 steps is two
\* steps adjacent in that order.
C10_SortedStableWindows ==
    /\ pc = "idle" => calls = <<>>
    /\ (pc # "idle" /\ NumSteps >= 1) =>
          /\ Len(sorted_steps) = NumSteps
          /\ \A j \in 1..NumSteps : sorted_steps[j] = run_data.steps[sorted_steps[j].pos]
          /\ \A a, b \in 1..NumSteps :
                a < b =>
                  \/ SequenceNumber(sorted_steps[a]) < SequenceNumber(sorted_steps[b])
                  \/ /\ SequenceNumber(sorted_steps[a]) = SequenceNumber(sorted_steps[b])
                     /\ sorted_steps[a].pos < sorted_steps[b].pos
          /\ NumSteps > WINDOW_SIZE =>
                \A j \in 1..Len(calls) :
                    calls[j].steps = <<sorted_steps[j], sorted_steps[j + 1]>>

C10_Witness ==
    /\ pc = "done"
    /\ Len(calls) = 4
    /\ run_data.steps[1].step_order = 2
    /\ run_data.steps[2].step_order = NoOrder
    /\ run_data.steps[3].step_order = 2
    /\ run_data.steps[4].step_order = NoOrder
    /\ sorted_steps[1].pos = 2
    /\ sorted_steps[2].pos = 4
    /\ calls[3].steps[1].pos = 1

\* C11 (as stated): whenever _ensure_within_budget is called with a value
\* whose serialized size is at most MAX_PAYLOAD_SIZE, a null payload
\* included, it returns that value unchanged.
C11_Unchanged ==
    (n_pc = "done" /\ n_passes = <<>> /\ WithinBudget(n_data)) => n_result = n_data

\* C11: every value other than null whose serialized size is at most
\* MAX_PAYLOAD_SIZE is returned unchanged, without any summarization pass,
\* on the first call and on every further call on the returned value; a
\* null payload is returned as the empty map.
C11_FastPath ==
    /\ (n_pc = "done" /\ WithinBudget(n_data) /\ n_data # JNull) =>
          (n_result = n_data /\ n_passes = <<>>)
    /\ (n_pc = "done" /\ n_data = JNull) => (n_result = EmptyDict /\ n_passes = <<>>)
    /\ (n_pc = "loop" \/ (n_pc = "done" /\ n_passes # <<>>)) => ~WithinBudget(n_data)

C11_Witness ==
    /\ n_pc = "done"
    /\ n_round = 2
    /\ n_data.t = "dict"
    /\ Len(n_data.keys) = 2
    /\ n_data.kids[1].t = "list"
    /\ ListLen(n_data.kids[1]) = MaxListLen
    /\ WithinBudget(n_data)
    /\ n_result = n_data

\* The sample sizes of the passes, in order.
PassSizes == <<100, 50, 25, 12, 10>>

\* C12: the summarization loop always returns: its passes run with sample
\* sizes 100, 50, 25, 12, 10 in that order, every pass but the last left a
\* result over the budget, the loop stops at the first pass whose result
\* fits or at the pass run at the floor 10, so it runs at most 5 passes, and
\* sample_size never goes below the floor.
C12_LoopTerminates ==
    /\ Len(n_passes) <= Len(PassSizes)
    /\ n_sample >= MIN_SAMPLE_SIZE
    /\ \A j \in 1..Len(n_passes) :
          /\ n_passes[j].sample_size = PassSizes[j]
          /\ j < Len(n_passes) =>
                (n_passes[j].size > MAX_PAYLOAD_SIZE /\ n_passes[j].sample_size > MIN_SAMPLE_SIZE)
    /\ n_pc = "loop" =>
          /\ Len(n_passes) < Len(PassSizes)
          /\ n_sample = PassSizes[Len(n_passes) + 1]
          /\ \A j \in 1..Len(n_passes) : n_passes[j].size > MAX_PAYLOAD_SIZE
    /\ (n_pc = "done" /\ n_passes # <<>>) =>
          \/ n_passes[Len(n_passes)].size <= MAX_PAYLOAD_SIZE
          \/ n_passes[Len(n_passes)].sample_size = MIN_SAMPLE_SIZE

C12_Witness ==
    /\ n_pc = "done"
    /\ Len(n_passes) = 5
    /\ n_passes[4].sample_size = 12
    /\ n_passes[5].sample_size = MIN_SAMPLE_SIZE
    /\ n_passes[5].size > MAX_PAYLOAD_SIZE

HasKey(dict, key) == \E j \in 1..Len(dict.keys) : dict.keys[j] = key

Lookup(dict, key) == dict.kids[CHOOSE j \in 1..Len(dict.keys) : dict.keys[j] = key]

\* The positions a list of length len keeps when it is sampled with sample
\* size s: the first s div 2 and the last s - s div 2.
ExpectedSegs(len, s) ==
    IF len = 0 THEN <<>>
    ELSE IF len <= s THEN <<(<<1, len>>)>>
    ELSE <<(<<1, s \div 2>>), (<<len - (s - s \div 2) + 1, len>>)>>

\* res holds the list of an unsampled list orig as the claim describes it.
ListSampled(orig, res, s) ==
    /\ res.t = "list"
    /\ res.segs = ExpectedSegs(ListLen(orig), s)
    /\ ListLen(res) = (IF ListLen(orig) > s THEN s ELSE ListLen(orig))

\* Every list of the map orig, and of the maps it holds, is sampled in res
\* and has its sibling as the claim describes it.
RECURSIVE SiblingsAsClaimed(_, _, _)
SiblingsAsClaimed(orig, res, s) ==
    /\ res.t = "dict"
    /\ \A j \in 1..Len(orig.keys) :
          LET key == orig.keys[j]
              value == orig.kids[j]
              sibling == TotalCountKey(key)
          IN  /\ HasKey(res, key)
              /\ value.t = "list" =>
                    /\ ListSampled(value, Lookup(res, key), s)
                    /\ ListLen(value) > s =>
                          (HasKey(res, sibling) /\ Lookup(res, sibling) = JNum(ListLen(value)))
                    /\ ListLen(value) <= s => (HasKey(res, sibling) <=> HasKey(orig, sibling))
              /\ value.t = "dict" => SiblingsAsClaimed(value, Lookup(res, key), s)

\* C13 (as stated): one pass with sample size s replaces every list of
\* length L > s under a map key by its first s div 2 and last s - s div 2
\* elements in their order and gives the map the entry <key>_total_count
\* = L; a list of at most s elements keeps its elements and gets no sibling;
\* a bare list is sampled the same way.
C13_SampleAndSibling ==
    n_pc = "done" =>
       /\ n_data.t = "list" => ListSampled(n_data, n_result, n_sample)
       /\ n_data.t = "dict" => SiblingsAsClaimed(n_data, n_result, n_sample)

IsScalar(v) == v.t \in {"null", "num", "str"}

\* res is what the claim says a pass makes of the scalar orig.
ScalarAsClaimed(orig, res) ==
    IF orig.t = "str" /\ orig.m = 0 /\ orig.n > STRING_TRUNCATE
    THEN res = [orig EXCEPT !.n = STRING_TRUNCATE, !.m = orig.n - STRING_TRUNCATE]
    ELSE res = orig

\* key is the sibling name of a list-valued key of the map.
SiblingName(dict, key) ==
    \E j \in 1..Len(dict.keys) :
        dict.kids[j].t = "list" /\ TotalCountKey(dict.keys[j]) = key

\* Every scalar of orig that the pass reaches (the elements a list keeps, the
\* entries of a map not named like the sibling of one of its lists) is in
\* res what the claim says.
RECURSIVE ScalarsAsClaimed(_, _)
ScalarsAsClaimed(orig, res) ==
    CASE IsScalar(orig) -> ScalarAsClaimed(orig, res)
      [] orig.t = "list" ->
           /\ res.t = "list"
           /\ res.segs # <<>> => ScalarsAsClaimed(orig.kids[1], res.kids[1])
      [] orig.t = "dict" ->
           /\ res.t = "dict"
           /\ \A j \in 1..Len(orig.keys) :
                 ~SiblingName(orig, orig.keys[j]) =>
                    /\ HasKey(res, orig.keys[j])
                    /\ ScalarsAsClaimed(orig.kids[j], Lookup(res, orig.keys[j]))

\* C14: one pass turns every string longer than STRING_TRUNCATE = 2000
\* characters into its first 2000 characters followed by a marker stating
\* original length - 2000 omitted characters; strings of at most 2000
\* characters and all other scalars are returned unchanged.
C14_StringsTruncated ==
    n_pc = "done" => ScalarsAsClaimed(n_data, n_result)

C14_Witness ==
    /\ n_pc = "done"
    /\ n_sample = SAMPLE_SIZE
    /\ n_data = JDict(<<"text", "items">>,
                      <<JStr(MaxStrLen), JList(MaxListLen, JStr(MAX_PAYLOAD_SIZE + MaxStrLen))>>)
    /\ StrLen(n_result.kids[1]) = STRING_TRUNCATE + MARKER_TEXT_LEN + Digits(MaxStrLen - STRING_TRUNCATE)
    /\ n_result.kids[1].m = MaxStrLen - STRING_TRUNCATE
    /\ ListLen(n_result.kids[2]) = SAMPLE_SIZE
    /\ n_result.kids[2].kids[1].n = STRING_TRUNCATE
    /\ n_result.kids[2].kids[1].m = MAX_PAYLOAD_SIZE + MaxStrLen - STRING_TRUNCATE

\* C15: the value returned by normalization has serialized size at most
\* MAX_PAYLOAD_SIZE unless the last pass ran at sample size MIN_SAMPLE_SIZE:
\* a value returned without a pass or by a pass above the floor fits the
\* budget, and the result of the floor pass is returned as it is, whatever
\* its size.
C15_FitsUnlessFloor ==
    n_pc = "done" =>
       /\ n_passes = <<>> => JsonSize(n_result) <= MAX_PAYLOAD_SIZE
       /\ n_passes # <<>> =>
             LET last == n_passes[Len(n_passes)]
             IN  /\ n_result = n_summarized
                 /\ last.size = JsonSize(n_result)
                 /\ last.sample_size > MIN_SAMPLE_SIZE => JsonSize(n_result) <= MAX_PAYLOAD_SIZE

C15_Witness ==
    /\ n_pc = "done"
    /\ n_round = 1
    /\ n_passes # <<>>
    /\ n_passes[Len(n_passes)].sample_size = MIN_SAMPLE_SIZE
    /\ n_result.t = "list"
    /\ ListLen(n_result) = MIN_SAMPLE_SIZE
    /\ JsonSize(n_result) > MAX_PAYLOAD_SIZE

\* The sample size of the last pass run.
LastSampleSize == n_passes[Len(n_passes)].sample_size

\* Every list of the map orig (and of the maps it holds) longer than the
\* sample size s has in res the sibling <key>_total_count with the length
\* the list has in orig.
RECURSIVE SiblingsHoldOriginalLength(_, _, _)
SiblingsHoldOriginalLength(orig, res, s) ==
    /\ res.t = "dict"
    /\ \A j \in 1..Len(orig.keys) :
          LET key == orig.keys[j]
              value == orig.kids[j]
              sibling == TotalCountKey(key)
          IN  /\ HasKey(res, key)
              /\ (value.t = "list" /\ ListLen(value) > s) =>
                    (HasKey(res, sibling) /\ Lookup(res, sibling) = JNum(ListLen(value)))
              /\ value.t = "dict" => SiblingsHoldOriginalLength(value, Lookup(res, key), s)

\* C19 (as stated): when normalization runs more than one pass, every
\* list-valued key that was sampled has in the returned value a sibling
\* <key>_total_count equal to the length of the list in the original payload.
C19_SiblingIsOriginalLength ==
    (n_pc = "done" /\ n_round = 1 /\ Len(n_passes) > 1 /\ n_data.t = "dict") =>
        SiblingsHoldOriginalLength(n_data, n_result, LastSampleSize)

\* C20 (as stated): in the value returned by normalization, whatever the
\* number of passes, every string longer than STRING_TRUNCATE in the original
\* payload that is still there is its first STRING_TRUNCATE characters
\* followed by one marker stating original length - STRING_TRUNCATE.
C20_TruncatedOnce ==
    (n_pc = "done" /\ n_round = 1 /\ n_passes # <<>>) => ScalarsAsClaimed(n_data, n_result)

\* The POSTs attempted by the last client call.
PostsOfCall == SubSeq(posts, c_call.posted + 1, Len(posts))

\* C17 (as stated): whenever the POST of send fails (connection error,
\* timeout, non-2xx status) send does not raise but returns {error, spooled,
\* spool_path}, the spool directory then holds a file with that run's
\* contents and the files already there are untouched; a successful send
\* adds nothing to the spool.
C17_FailedSendSpools ==
    c_call.op = "send" =>
       IF c_call.outcome # "ok"
       THEN /\ c_result.kind = "spooled"
            /\ spool_exists
            /\ \E f \in files :
                  /\ f.path = c_result.spool_path
                  /\ f.readable
                  /\ f.body.run = c_call.run
            /\ c_call.before \subseteq files
       ELSE /\ c_result.kind = "response"
            /\ files = c_call.before
            /\ spool_exists = c_call.existed

\* f is a file of fs no file of fs was modified after.
GreatestMtime(f, fs) == f \in fs /\ \A g \in fs : g.mtime <= f.mtime

\* The last call was a flush_spool on a spool that held files.
FlushedNonEmpty == c_call.op = "flush" /\ c_call.existed /\ c_call.before # {}

\* The last call was a flush_spool on a missing or empty spool.
FlushedEmpty == c_call.op = "flush" /\ (~c_call.existed \/ c_call.before = {})

CallerObjects == DOMAIN heap0

\* C16: analyze_run never mutates the trace it is given: at every point of
\* the call and after it (summarized or not, fault or not, returned or
\* raised) the caller's run_data, its steps list with its order, every step
\* and every step's inputs and outputs are what they were at the call;
\* summarization and sorting write to new objects only.
C16_TraceNotMutated ==
    /\ CallerObjects \subseteq DOMAIN heap
    /\ \A id \in CallerObjects : heap[id] = heap0[id]
    /\ \A id \in DOMAIN heap : id.owner = "caller" <=> id \in CallerObjects

C16_Witness ==
    /\ pc = "done"
    /\ Len(run_data.steps) = WINDOW_SIZE + 1
    /\ run_data.steps[1].step_order = 2
    /\ run_data.steps[2].step_order = NoOrder
    /\ Truthy(report.faulty_step)
    /\ heap0[Id("step", 1, "caller")].inputs = NoRef
    /\ heap0[Id("step", 2, "caller")].outputs = Id("outputs", 2, "caller")
    /\ heap0[Id("outputs", 2, "caller")].value = LargePayload
    /\ heap[Id("step", 1, "analyzer")].inputs = Id("inputs", 1, "analyzer")
    /\ heap[Id("inputs", 1, "analyzer")].value = EmptyDict
    /\ heap[Id("step", 2, "analyzer")].outputs = Id("outputs", 2, "analyzer")
    /\ ~WithinBudget(heap0[Id("outputs", 2, "caller")].value)
    /\ WithinBudget(heap[Id("outputs", 2, "analyzer")].value)
    /\ heap[Id("step", 2, "analyzer")].inputs = Id("inputs", 2, "caller")
    /\ heap[Id("sorted", 0, "analyzer")].items[1] = Id("step", 2, "analyzer")
    /\ heap[Id("steps", 0, "caller")].items[1] = Id("step", 1, "caller")

\* The one attempt of the last flush_spool call failed: the newest file
\* could not be read, or the POST ended in an error.
FlushAttemptFailed ==
    /\ FlushedNonEmpty
    /\ PostsOfCall = <<>> \/ PostsOfCall[Len(PostsOfCall)].outcome # "ok"

\* C21: a flush_spool whose attempt fails (unreadable newest file,
\* transport error or non-2xx response) deletes nothing and reports
\* flushed = 0, failed = 1 and one error entry naming the newest file; the
\* file is still in the spool for a later flush.
C21_FailedFlushKeepsFiles ==
    FlushAttemptFailed =>
        /\ files = c_call.before
        /\ c_result.flushed = 0
        /\ c_result.failed = 1
        /\ Len(c_result.errors) = 1
        /\ \E f \in files :
              /\ GreatestMtime(f, c_call.before)
              /\ c_result.errors[1] = f.path
              /\ c_result.sent_file = f.path

C21_Witness ==
    /\ FlushAttemptFailed
    /\ Cardinality(c_call.before) >= 2
    /\ Len(PostsOfCall) = 1
    /\ PostsOfCall[1].outcome = "http_error"
    /\ PostsOfCall[1].body.run.tag = "new1"
    /\ c_result.failed = 1
    /\ files = c_call.before

\* The oracle call failed: it raised, or it answered with no content or
\* with a text that json.loads cannot decode.
ReplyFailed(reply) ==
    \/ reply.kind = "exception"
    \/ ~reply.content.has
    \/ ~JsonDecodable(Unfenced(reply.content.text))

\* The oracle judged the transition ok.
ReplyJudgedOk(reply) ==
    /\ reply.kind = "answer"
    /\ reply.content.has
    /\ Unfenced(reply.content.text) = <<OBJ_OK>>

\* The fields a report copies from a verdict.
CopiedFields(rep) == {rep.faulty_step, rep.faulty_step_order, rep.reason, rep.suggestion}

\* C22: per-window failures are invisible in the report: it has no "error"
\* and no "raw_response" key and none of its fields holds the error message
\* of an oracle-error verdict or the raw text of a degraded verdict; and a
\* trace whose oracle calls all failed (or were all judged ok, or any mix of
\* the two) gets the clean report: faulty_step null, every step "ok",
\* windows_analyzed the number of windows.
C22_FailuresInvisible ==
    (pc = "done" /\ calls # <<>>) =>
        /\ report.keys \cap {"error", "raw_response"} = {}
        /\ report.error = None
        /\ \A j \in 1..Len(calls) :
              ReplyFailed(calls[j].reply) =>
                  /\ IsDict(window_results[j])
                  /\ Get(window_results[j], "error") # None =>
                        Get(window_results[j], "error") \notin CopiedFields(report)
                  /\ Get(window_results[j], "raw_response") # None =>
                        Get(window_results[j], "raw_response") \notin CopiedFields(report)
        /\ (\A j \in 1..Len(calls) :
                ReplyFailed(calls[j].reply) \/ ReplyJudgedOk(calls[j].reply)) =>
              /\ report.keys = CleanKeys
              /\ report.faulty_step = None
              /\ report.faulty_step_order = None
              /\ report.windows_analyzed = WindowsOf(NumSteps)
              /\ Len(report.all_steps_analysis) = NumSteps
              /\ \A k \in 1..NumSteps :
                    /\ report.all_steps_analysis[k].step = sorted_steps[k].step_name
                    /\ report.all_steps_analysis[k].status = "ok"
              /\ report = CleanReport(sorted_steps, WindowsOf(NumSteps))

C22_Witness ==
    /\ pc = "done"
    /\ NumSteps = 4
    /\ Len(calls) = 3
    /\ calls[1].reply = OracleRaises
    /\ calls[2].reply = OracleAnswers(Content(<<PROSE>>))
    /\ calls[3].reply = OracleAnswers(NoContent)
    /\ Get(window_results[1], "error") = Str(<<ORACLE_ERROR>>)
    /\ Get(window_results[2], "raw_response") = Str(<<PROSE>>)
    /\ report.faulty_step = None
    /\ report.windows_analyzed = 3

\* Post k is a flush delivering a run that this client spooled after a
\* failed send(run, analyze=False).
DeliversSpooledUnanalyzed(k) ==
    /\ posts[k].by = "flush"
    /\ posts[k].outcome = "ok"
    /\ \E j \in 1..(k - 1) :
          /\ posts[j].by = "send"
          /\ posts[j].outcome # "ok"
          /\ posts[j].body.run = posts[k].body.run
          /\ posts[j].body.analyze = "false"

\* C23 (as stated): a run passed to send(run, analyze=False), spooled
\* because the API was unreachable and later delivered by flush_spool, is
\* delivered with the same option: the server does not run the analysis
\* and stores it with status 'stored'.
C23_AnalyzeSurvivesSpool ==
    \A k \in 1..Len(posts) :
        DeliversSpooledUnanalyzed(k) =>
            /\ posts[k].body.analyze = "false"
            /\ ~ShouldAnalyze(posts[k].body.analyze)

\* The run of the request in hand, once its rows are committed.
RunOfRequest == s_db[Len(s_db)]

\* The rows committed before the request are still there, unchanged.
EarlierRunsKept ==
    /\ Len(s_call.before) <= Len(s_db)
    /\ \A k \in 1..Len(s_call.before) : s_db[k] = s_call.before[k]

\* C26: a request without pipeline_name or with no steps is answered 400
\* and persists nothing; after a 201 the run of the request is persisted
\* with its steps, in status 'analyzed' or 'analysis_failed' when analyze is
\* true or absent and in 'stored' when analyze is false, never in 'received'
\* or 'pending'; analysis_result of every run is non-null exactly when its
\* status is 'analyzed' or 'analysis_failed'; and when the analyzer failed
\* the run and its steps are still persisted, whatever the answer is.
C26_StatusLifecycle ==
    /\ EarlierRunsKept
    /\ \A k \in 1..Len(s_db) :
          /\ s_db[k].status \in {"received", "stored", "analyzed", "analysis_failed"}
          /\ s_db[k].analysis_result # "null"
                <=> s_db[k].status \in {"analyzed", "analysis_failed"}
    /\ (s_response.code # 0
          /\ (\/ s_call.request.pipeline_name \in {"absent", ""}
              \/ s_call.request.steps.kind = "absent"
              \/ s_call.request.steps.n = 0)) =>
          /\ s_response.code = 400
          /\ s_db = s_call.before
    /\ s_response.code = 201 =>
          /\ Len(s_db) = Len(s_call.before) + 1
          /\ RunOfRequest.steps = s_call.request.steps.n
          /\ RunOfRequest.steps >= 1
          /\ RunOfRequest.status = s_response.status
          /\ RunOfRequest.status \notin {"received", "pending"}
          /\ s_call.request.analyze \in {"true", "absent"} =>
                RunOfRequest.status \in {"analyzed", "analysis_failed"}
          /\ s_call.request.analyze = "false" => RunOfRequest.status = "stored"
    /\ (s_pc = "analyze" \/ s_call.analyzer \in {"no_analyzer", "raised"}) =>
          /\ Len(s_db) = Len(s_call.before) + 1
          /\ RunOfRequest.steps = s_call.request.steps.n
          /\ RunOfRequest.pipeline_name = s_call.request.pipeline_name

C26_Witness ==
    /\ s_response.code = 201
    /\ s_call.analyzer = "raised"
    /\ s_call.request.analyze = "absent"
    /\ Len(s_db) = 2
    /\ s_db[1].status = "stored"
    /\ s_db[2].status = "analysis_failed"
    /\ s_db[2].steps = 3

\* C25 (as stated): a pass over a map never drops or overwrites an original
\* entry: every key of the original map is in the result and maps to the
\* summarization of its own original value, also when the map holds a key
\* named <j>_total_count for a sampled list-valued key j, in either key
\* order; and every generated <j>_total_count entry holds the original
\* length of list j.
C25_NoEntryLost ==
    (n_pc = "done" /\ n_data.t = "dict") =>
        /\ n_result.t = "dict"
        /\ \A j \in 1..Len(n_data.keys) :
              LET key == n_data.keys[j]
                  value == n_data.kids[j]
              IN  /\ HasKey(n_result, key)
                  /\ Lookup(n_result, key) = SummarizeOnce(value, n_sample)
                  /\ (value.t = "list" /\ ListLen(value) > n_sample) =>
                        /\ HasKey(n_result, TotalCountKey(key))
                        /\ Lookup(n_result, TotalCountKey(key)) = JNum(ListLen(value))

\* The flush_spool call p found a non-empty spool and is over.
FlushOver(p) == p_listed[p] # {} /\ p_pc[p] \in {"returned", "raised"}

\* The number of POSTs that delivered the contents body.
Deliveries(body) ==
    Cardinality({k \in 1..Len(posts) : posts[k].outcome = "ok" /\ posts[k].body = body})

\* C24 (as stated): for a non-empty spool every flush_spool call returns
\* exactly one of flushed = 1 and failed = 1, and flushed = 1 implies that
\* all files the call listed are deleted and that the newest trace was
\* delivered exactly once; also with two concurrent calls on one spool
\* directory, with a send that spools during the flush, and when deleting a
\* file fails.
C24_FlushedXorFailed ==
    \A p \in DOMAIN p_pc :
        FlushOver(p) =>
            /\ p_pc[p] = "returned"
            /\ p_result[p].flushed + p_result[p].failed = 1
            /\ p_result[p].flushed = 1 =>
                  /\ \A f \in p_listed[p] : ~Exists(f)
                  /\ \A newest \in p_newest[p] : Deliveries(newest.body) = 1

====
